---- MODULE Spec2Model ----
(***************************************************************************)
(* Verification model of the QueryWeaver query pipeline:                   *)
(*   api/core/text2sql.py      query_database, execute_destructive_operation*)
(*   api/agents/healer_agent.py HealerAgent.heal_and_execute               *)
(*                                                                         *)
(* Text values (SQL statements, replies, graph identifiers, URLs) are      *)
(* sequences of atoms.  An atom is an indivisible piece of text without    *)
(* whitespace, or the single whitespace atom " ".  str.strip, str.split,   *)
(* str.upper and str.startswith are computed on these sequences.           *)
(***************************************************************************)
EXTENDS Integers, Sequences, FiniteSets, TLC

\* -------------------------------------------------------------------------
\* Bounds of the model
\* -------------------------------------------------------------------------
MaxRuns == 1

MaxAttemptsBound == 2

\* the longest chat history of a request
MaxHistory == 7

\* the longest list of table descriptors given to _get_unique_tables
MaxTables == 3

\* the number of heal_and_execute sessions run on one HealerAgent
MaxSessions == 2

\* the number of get_analysis calls made on one AnalysisAgent
MaxAnalysisCalls == 2

\* -------------------------------------------------------------------------
\* Text primitives
\* -------------------------------------------------------------------------
IsSpace(a) == a = " "

RECURSIVE LStrip(_)
LStrip(s) == IF s = <<>> THEN <<>>
             ELSE IF IsSpace(Head(s)) THEN LStrip(Tail(s)) ELSE s

RECURSIVE RStrip(_)
RStrip(s) == IF s = <<>> THEN <<>>
             ELSE IF IsSpace(s[Len(s)]) THEN RStrip(SubSeq(s, 1, Len(s) - 1)) ELSE s

\* str.strip()
Strip(s) == RStrip(LStrip(s))

\* the leading run of non-whitespace atoms of s
RECURSIVE TakeWord(_)
TakeWord(s) == IF s = <<>> \/ IsSpace(Head(s)) THEN <<>>
               ELSE <<Head(s)>> \o TakeWord(Tail(s))

\* str.split(): the whitespace-separated words of s, each a sequence of atoms
RECURSIVE Split(_)
Split(s) == LET t == LStrip(s)
                w == TakeWord(t)
            IN IF t = <<>> THEN <<>>
               ELSE <<w>> \o Split(SubSeq(t, Len(w) + 1, Len(t)))

\* str.upper() on one atom
UpperAtom(a) ==
    CASE a = "delete"  -> "DELETE"
      [] a = "select"  -> "SELECT"
      [] a = "drop"    -> "DROP"
      [] a = "rename"  -> "RENAME"
      [] a = "from"    -> "FROM"
      [] a = "table"   -> "TABLE"
      [] a = "confirm" -> "CONFIRM"
      [] a = "Confirm" -> "CONFIRM"
      [] a = "yes"     -> "YES"
      [] a = "users"   -> "USERS"
      [] a = "my-table" -> "MY-TABLE"
      [] a = "create"  -> "CREATE"
      [] a = "alter"   -> "ALTER"
      [] a = "index"   -> "INDEX"
      [] a = "truncate" -> "TRUNCATE"
      [] a = "postgresql" -> "POSTGRESQL"
      [] a = "mysql"   -> "MYSQL"
      [] OTHER -> a

\* str.upper()
Upper(s) == [i \in DOMAIN s |-> UpperAtom(s[i])]

\* str.lower() on one atom
LowerAtom(a) ==
    CASE a = "POSTGRESQL://" -> "postgresql://"
      [] a = "MYSQL://"      -> "mysql://"
      [] OTHER -> a

\* str.lower()
Lower(s) == [i \in DOMAIN s |-> LowerAtom(s[i])]

\* str.startswith(p)
StartsWith(s, p) == Len(p) <= Len(s) /\ SubSeq(s, 1, Len(p)) = p

\* -------------------------------------------------------------------------
\* Input domains
\* -------------------------------------------------------------------------
\* SQL statements the analysis model, the healer model or a client may produce
SqlStatements ==
    { <<"SELECT", " ", "*", " ", "FROM", " ", "users">>,
      <<"DELETE", " ", "FROM", " ", "users">>,
      <<" ", "delete", " ", "from", " ", "users">>,
      <<"DROP", " ", "TABLE", " ", "my-table">>,
      <<"RENAME", " ", "TABLE", " ", "users">>,
      <<" ">>,
      <<>> }

\* replies a client may send to the confirmation endpoint
Replies ==
    { <<"CONFIRM">>, <<" ", "confirm", " ">>, <<"yes">>, <<>> }

UserIds == { <<"u">> }

GraphIdInputs == { <<"x">>, <<"d", "x">>, <<" ">> }

\* values of the GENERAL_PREFIX environment variable, <<>> when it is unset
PrefixConfigs == { <<>>, <<"d">> }

\* connection URLs stored with a graph
DbUrls ==
    { <<"postgresql://", "h">>, <<"MYSQL://", "h">>,
      <<"No URL available for this database.">>, <<>> }

\* texts of exceptions raised by collaborators
ExcTexts == { "err_a", "err_b" }

\* table names the schema retrieval may return
KnownTableSets == { {}, {"users", "my-table"} }

\* -------------------------------------------------------------------------
\* api/core/text2sql.py: pure helpers
\* -------------------------------------------------------------------------
GRAPH_ID_MAX == 200

Min(a, b) == IF a < b THEN a ELSE b

\* _graph_name: "" stands for the raised GraphNotFoundError
GraphNameRaises(graph_id) == SubSeq(Strip(graph_id), 1, Min(Len(Strip(graph_id)), GRAPH_ID_MAX)) = <<>>

GraphName(prefix, user_id, graph_id) ==
    LET g == SubSeq(Strip(graph_id), 1, Min(Len(Strip(graph_id)), GRAPH_ID_MAX))
    IN IF prefix # <<>> /\ StartsWith(g, prefix) THEN g
       ELSE user_id \o <<"_">> \o g

\* general_graph = graph_id.startswith(GENERAL_PREFIX) if GENERAL_PREFIX else False
IsGeneralGraph(prefix, graph_name) ==
    IF prefix # <<>> THEN StartsWith(graph_name, prefix) ELSE FALSE

\* get_database_type_and_loader: the database type, "none" when no loader
DatabaseType(db_url) ==
    IF db_url = <<>> \/ db_url = <<"No URL available for this database.">> THEN "none"
    ELSE IF StartsWith(Lower(db_url), <<"postgresql://">>)
            \/ StartsWith(Lower(db_url), <<"postgres://">>) THEN "postgresql"
    ELSE IF StartsWith(Lower(db_url), <<"mysql://">>) THEN "mysql"
    ELSE "postgresql"

destructive_ops_NoDrop ==
    { <<"INSERT">>, <<"UPDATE">>, <<"DELETE">>, <<"CREATE">>, <<"ALTER">>, <<"TRUNCATE">> }

destructive_ops ==
    { <<"INSERT">>, <<"UPDATE">>, <<"DELETE">>, <<"DROP">>,
      <<"CREATE">>, <<"ALTER">>, <<"TRUNCATE">> }

\* sql_query.strip().split()[0] raises IndexError on a blank, non-empty statement
SqlTypeRaises(sql_query) == sql_query # <<>> /\ Split(Strip(sql_query)) = <<>>

\* sql_type = sql_query.strip().split()[0].upper() if sql_query else ""
SqlType(sql_query) ==
    IF sql_query = <<>> \/ Split(Strip(sql_query)) = <<>> THEN <<>>
    ELSE Upper(Split(Strip(sql_query))[1])

IsDestructive(sql_query) == SqlType(sql_query) \in destructive_ops

\* -------------------------------------------------------------------------
\* api/loaders/postgres_loader.py, mysql_loader.py
\* -------------------------------------------------------------------------
SCHEMA_MODIFYING_OPERATIONS ==
    { <<"CREATE">>, <<"ALTER">>, <<"DROP">>, <<"RENAME">>, <<"TRUNCATE">> }

\* mysql_loader.py 34-36
MYSQL_SCHEMA_MODIFYING_OPERATIONS_NoRename ==
    { <<"CREATE">>, <<"ALTER">>, <<"DROP">>, <<"TRUNCATE">> }

MYSQL_SCHEMA_MODIFYING_OPERATIONS ==
    { <<"CREATE">>, <<"ALTER">>, <<"DROP">>, <<"RENAME">>, <<"TRUNCATE">> }

\* postgres_loader.py 38-51: each pattern ^\s*W1\s+W2... as its words
SCHEMA_PATTERNS ==
    { << <<"CREATE">>, <<"TABLE">> >>, << <<"CREATE">>, <<"INDEX">> >>,
      << <<"CREATE">>, <<"UNIQUE">>, <<"INDEX">> >>, << <<"ALTER">>, <<"TABLE">> >>,
      << <<"DROP">>, <<"TABLE">> >>, << <<"DROP">>, <<"INDEX">> >>,
      << <<"RENAME">>, <<"TABLE">> >>, << <<"TRUNCATE">>, <<"TABLE">> >>,
      << <<"CREATE">>, <<"VIEW">> >>, << <<"DROP">>, <<"VIEW">> >>,
      << <<"CREATE">>, <<"SCHEMA">> >>, << <<"DROP">>, <<"SCHEMA">> >> }

\* mysql_loader.py 39-54
MYSQL_SCHEMA_PATTERNS ==
    SCHEMA_PATTERNS \cup { << <<"CREATE">>, <<"DATABASE">> >>,
                           << <<"DROP">>, <<"DATABASE">> >> }

\* re.match(pattern, normalized_query): the query starts with the pattern's words
MatchesPattern(pattern, normalized_query) ==
    StartsWith(Split(normalized_query), pattern)

\* the body shared by the two loaders: [modifying |-> bool, operation |-> first word]
SchemaModifying(operations, patterns, sql_query) ==
    IF sql_query = <<>> \/ Strip(sql_query) = <<>>
    THEN [modifying |-> FALSE, operation |-> <<>>]
    ELSE LET normalized_query == Upper(Strip(sql_query))
             first_word == IF Split(normalized_query) # <<>>
                           THEN Split(normalized_query)[1] ELSE <<>>
         IN IF first_word \in operations
            THEN IF \E pattern \in patterns : MatchesPattern(pattern, normalized_query)
                 THEN [modifying |-> TRUE, operation |-> first_word]
                 ELSE [modifying |-> TRUE, operation |-> first_word]
            ELSE [modifying |-> FALSE, operation |-> <<>>]

\* PostgresLoader.is_schema_modifying_query
IsSchemaModifyingQuery(sql_query) ==
    SchemaModifying(SCHEMA_MODIFYING_OPERATIONS, SCHEMA_PATTERNS, sql_query)

\* MySQLLoader.is_schema_modifying_query
MySQLIsSchemaModifyingQuery(sql_query) ==
    SchemaModifying(MYSQL_SCHEMA_MODIFYING_OPERATIONS, MYSQL_SCHEMA_PATTERNS, sql_query)

\* loader_class.is_schema_modifying_query for the loader of the database type
LoaderIsSchemaModifyingQuery(db_type, sql_query) ==
    IF db_type = "mysql" THEN MySQLIsSchemaModifyingQuery(sql_query)
    ELSE IsSchemaModifyingQuery(sql_query)

\* PostgresLoader.load and MySQLLoader.load contain yield statements: a call of
\* either evaluates to an async generator object, not to a coroutine
LoaderLoad == "async_generator"

\* "await x" raises TypeError unless x is awaitable
AwaitRaises(x) == x \notin {"coroutine", "task", "future"}

\* the except clause of refresh_graph_schema (postgres_loader.py 453-458,
\* mysql_loader.py 496-501): str(e) goes to the log, the message is fixed
RefreshErrorMessage_Raw(e) == e

RefreshErrorMessage(e) == "Error refreshing graph schema"

NoRefresh == [delete_ok |-> FALSE, load_ok |-> FALSE]

\* refresh_graph_schema (postgres_loader.py 412-459, mysql_loader.py 453-502):
\* the graph is deleted, load is awaited, every exception is caught.
\* delete_ok: graph.delete() returns; load_ok: the load of the live database
\* reports success; text: what the exception of a failing graph.delete() says.
\* [success, message, graph]
RefreshGraphSchema(delete_ok, load_ok, text) ==
    IF ~delete_ok
    THEN [success |-> FALSE, message |-> RefreshErrorMessage(text),
          graph |-> "present"]
    ELSE IF AwaitRaises(LoaderLoad)
    THEN [success |-> FALSE, message |-> RefreshErrorMessage("TypeError"),
          graph |-> "deleted"]
    ELSE IF load_ok
    THEN [success |-> TRUE, message |-> "schema loaded successfully",
          graph |-> "present"]
    ELSE [success |-> FALSE, message |-> "Failed to reload schema",
          graph |-> "deleted"]

\* -------------------------------------------------------------------------
\* api/utils/sql_sanitizer.py
\* -------------------------------------------------------------------------
\* DatabaseSpecificQuoter.get_quote_char; "<bq>" is the backtick and "<dq>" the
\* double quote character
GetQuoteChar(db_type) == IF db_type \in {"mysql", "mariadb"} THEN "<bq>" ELSE "<dq>"

\* the prefix of an atom matched by [a-zA-Z0-9_\-]+, "" when there is none
IdentifierPart(a) ==
    CASE a \in {" ", "*", "(", ")"} -> ""
      [] a = "DELETE;" -> "DELETE"
      [] OTHER -> a

\* index of the first non-whitespace atom after at least one whitespace atom
\* following position i, 0 when there is none
RECURSIVE SkipSpaces(_, _)
SkipSpaces(s, j) == IF j > Len(s) THEN 0
                    ELSE IF IsSpace(s[j]) THEN SkipSpaces(s, j + 1) ELSE j

AfterSpaces(s, i) == IF i + 1 <= Len(s) /\ IsSpace(s[i + 1]) THEN SkipSpaces(s, i + 1) ELSE 0

\* SQLIdentifierQuoter.extract_table_names_from_query
ExtractTableNames(sql_query) ==
    LET introduces(i) ==
            \/ UpperAtom(sql_query[i]) \in {"FROM", "JOIN", "UPDATE", "TABLE"}
            \/ /\ UpperAtom(sql_query[i]) = "INTO"
               /\ \E k \in 1..(i - 1) : /\ UpperAtom(sql_query[k]) = "INSERT"
                                        /\ AfterSpaces(sql_query, k) = i
    IN { IdentifierPart(sql_query[AfterSpaces(sql_query, i)]) :
           i \in { k \in DOMAIN sql_query : introduces(k) /\ AfterSpaces(sql_query, k) # 0 } }
       \ {""}

SQL_KEYWORDS ==
    { "SELECT", "FROM", "WHERE", "JOIN", "ON", "AS", "INSERT", "UPDATE", "DELETE",
      "CREATE", "DROP", "ALTER", "TABLE", "INTO", "VALUES", "SET" }

\* SQLIdentifierQuoter.needs_quoting
NeedsQuoting(identifier) ==
    IF identifier \in {"<dq>my-table<dq>", "<bq>my-table<bq>"} THEN FALSE
    ELSE IF UpperAtom(identifier) \in SQL_KEYWORDS THEN FALSE
    ELSE identifier \in {"my-table", "unknown-table", "DELETE;"}

\* SQLIdentifierQuoter.quote_identifier
QuoteIdentifier(identifier, quote_char) ==
    IF identifier \in {"<dq>my-table<dq>", "<bq>my-table<bq>"} THEN identifier
    ELSE IF identifier = "my-table"
         THEN (IF quote_char = "<bq>" THEN "<bq>my-table<bq>" ELSE "<dq>my-table<dq>")
         ELSE identifier

\* SQLIdentifierQuoter.auto_quote_identifiers: [query, modified]
AutoQuoteIdentifiers(sql_query, known_tables, quote_char) ==
    LET toQuote == { t \in ExtractTableNames(sql_query) :
                        t \in known_tables /\ NeedsQuoting(t) }
        result == [i \in DOMAIN sql_query |->
                     IF \E t \in toQuote : UpperAtom(sql_query[i]) = UpperAtom(t)
                     THEN QuoteIdentifier(
                            CHOOSE t \in toQuote : UpperAtom(sql_query[i]) = UpperAtom(t),
                            quote_char)
                     ELSE sql_query[i]]
    IN [query |-> result, modified |-> result # sql_query]

\* -------------------------------------------------------------------------
\* State
\* -------------------------------------------------------------------------
VARIABLES
    generalPrefix,     \* GENERAL_PREFIX, <<>> when unset
    runs,              \* number of calls made so far
    awaiting,          \* <<graph, statement>> pairs for which a confirmation was requested
    awaited,           \* tasks of the current run the generator has awaited
    op,                \* "idle", "query" (query_database), "confirm" (execute_destructive_operation)
    pc,                \* position of the running generator
    stream,            \* "none", "open", "ended" (generator returned), "raised" (exception left it)
    callError,         \* exception raised by the call before a stream existed
    user_id,
    graph_id,          \* the namespaced graph name
    events,            \* events yielded on the current stream, in order
    twin_events,       \* the stream of the same run under other exception texts
    find_task,         \* "none", "running", "done", "failed", "cancelled"
    relevancy_task,    \* "none", "running", "done", "failed"
    memory_tool_task,  \* "none", "running", "done", "failed"
    answer_rel,        \* status of the relevancy answer
    result,            \* table names returned by find
    db_url,
    answer_an,         \* the analysis verdict
    confirm_reply,     \* confirm_data.confirmation as sent by the client
    confirmation,      \* normalised reply of the confirmation call
    sql_query,         \* the statement handed to the gate / to the confirmed execution
    is_schema_modifying,
    execution_error,   \* "none" or the text kept for memory
    executed,          \* calls of execute_sql_query in this run: [sql, ok]
    analysis_reply,    \* the model's reply to the analysis call of this run
    healed_exec_ok,    \* the database's answer to the healed statement (line 478),
                       \* chosen when the first execution fails
    schema_graph,      \* the schema graph of the run's connection: "present", "deleted"
    refresh_env,       \* what the graph store and the live database answer to the
                       \* run's refresh: [delete_ok, load_ok]
    refreshCalls,      \* calls of refresh_graph_schema in this run
    background,        \* fire-and-forget memory tasks
    saved,             \* arguments of the save_query_memory calls of this run
    \* HealerAgent.heal_and_execute
    hpc, max_healing_attempts, attempt, messages, initial_sql, initial_error,
    healed_sql, error, llmCalls, execLog, healResult,
    sessions,          \* heal_and_execute calls made on the HealerAgent so far
    \* one application of a function to an input
    call,              \* [fn, the arguments]
    called,            \* the function has returned
    ret                \* what it returned

pipeVars == << generalPrefix, runs, awaiting, awaited, op, pc, stream, callError, user_id,
               graph_id, events, twin_events, find_task, relevancy_task, memory_tool_task,
               answer_rel, result, db_url, answer_an, confirm_reply, confirmation,
               sql_query, is_schema_modifying, execution_error, executed,
               analysis_reply, healed_exec_ok, schema_graph, refresh_env,
               refreshCalls, background, saved >>

pureVars == << call, called, ret >>

healVars == << hpc, max_healing_attempts, attempt, messages, initial_sql,
               initial_error, healed_sql, error, llmCalls, execLog, healResult,
               sessions >>

vars == << pipeVars, healVars, pureVars >>

BackgroundTasks == { "save_query_memory", "add_new_memory", "clean_memory" }

NoVerdict == [is_sql_translatable |-> FALSE, sql_query |-> <<>>]

\* verdicts the analysis agent may hand to the pipeline
Verdicts ==
    { [is_sql_translatable |-> TRUE, sql_query |-> s] : s \in SqlStatements }
    \cup { [is_sql_translatable |-> FALSE, sql_query |-> <<>>],
           [is_sql_translatable |-> FALSE,
            sql_query |-> <<"DELETE", " ", "FROM", " ", "users">>] }

\* replies of the model to the analysis call: a JSON object with every field of
\* the analysis, or text without a JSON object
AnalysisReplies ==
    { [json |-> TRUE, verdict |-> v] : v \in Verdicts }
    \cup { [json |-> FALSE, verdict |-> NoVerdict] }

NoReply == [json |-> TRUE, verdict |-> NoVerdict]

AnalysisKeys ==
    { "is_sql_translatable", "sql_query", "confidence", "explanation",
      "ambiguities", "missing_information" }

\* parse_response (agents/utils.py 21-74): the parsed object, or the fallback of
\* lines 67-74 when no JSON object can be read
ParseResponse(reply) ==
    IF reply.json
    THEN [keys |-> AnalysisKeys,
          is_sql_translatable |-> reply.verdict.is_sql_translatable,
          sql_query |-> reply.verdict.sql_query, confidence |-> 80,
          error |-> "none"]
    ELSE [keys |-> { "is_sql_translatable", "confidence", "explanation", "error" },
          is_sql_translatable |-> FALSE, sql_query |-> <<>>, confidence |-> 0,
          error |-> "raw response"]

\* analysis_agent.py 48-61: analysis["ambiguities"], analysis["missing_information"]
\* and analysis["sql_query"] are indexed on whatever parse_response returned
GetAnalysisRaises(reply) ==
    ~({ "ambiguities", "missing_information", "sql_query" }
         \subseteq ParseResponse(reply).keys)

\* the verdict get_analysis returns when it does not raise
GetAnalysis(reply) ==
    [is_sql_translatable |-> ParseResponse(reply).is_sql_translatable,
     sql_query |-> ParseResponse(reply).sql_query]

\* -------------------------------------------------------------------------
\* Events of query_database (every event carries final_response)
\* -------------------------------------------------------------------------
ReasoningStep(msg) ==
    [type |-> "reasoning_step", final_response |-> FALSE, message |-> msg]

ErrorEvent_NoFinal(msg) == [type |-> "error", message |-> msg]

ErrorEvent(msg) == [type |-> "error", final_response |-> TRUE, message |-> msg]

SqlQueryEvent_Final(verdict) ==
    [type |-> "sql_query", data |-> verdict.sql_query,
     is_valid |-> verdict.is_sql_translatable, final_response |-> TRUE]

SqlQueryEvent(verdict) ==
    [type |-> "sql_query", data |-> verdict.sql_query,
     is_valid |-> verdict.is_sql_translatable, final_response |-> FALSE]

DestructiveConfirmationEvent(sql, sql_type) ==
    [type |-> "destructive_confirmation", sql_query |-> sql,
     operation_type |-> sql_type, final_response |-> FALSE]

OffTopicEvent ==
    [type |-> "followup_questions", final_response |-> TRUE,
     message |-> "Off topic question"]

FollowUpEvent ==
    [type |-> "followup_questions", final_response |-> TRUE,
     message |-> "follow_up_result"]

QueryResultEvent(rows) ==
    [type |-> "query_result", data |-> rows, final_response |-> FALSE]

HealingAttemptEvent(original_error, healed) ==
    [type |-> "healing_attempt", final_response |-> FALSE,
     original_error |-> original_error, healed_sql |-> healed]

HealingSuccessEvent == [type |-> "healing_success", final_response |-> FALSE]

\* lines 512-537: the message names the operation on success and carries the
\* loader's message on failure
SchemaRefreshEvent(refresh_result, operation_type) ==
    [type |-> "schema_refresh", final_response |-> FALSE,
     message |-> IF refresh_result.success
                 THEN << "Schema change detected", operation_type >>
                 ELSE << "graph refresh failed", refresh_result.message >>,
     refresh_status |-> IF refresh_result.success THEN "success" ELSE "failed"]

AiResponseEvent == [type |-> "ai_response", final_response |-> TRUE]

\* -------------------------------------------------------------------------
\* Initial state: the service is up, no call has been made
\* -------------------------------------------------------------------------
HealIdle ==
    /\ hpc = "idle" /\ max_healing_attempts = 0 /\ attempt = 0
    /\ messages = <<>> /\ initial_sql = <<>> /\ initial_error = "none"
    /\ healed_sql = <<>> /\ error = "none" /\ llmCalls = 0 /\ execLog = <<>>
    /\ healResult = [returned |-> FALSE]
    /\ sessions = 0

PipeIdle ==
    /\ runs = 0 /\ awaiting = {} /\ awaited = {} /\ op = "idle" /\ pc = "idle"
    /\ stream = "none" /\ callError = "none" /\ user_id = <<>> /\ graph_id = <<>>
    /\ events = <<>> /\ twin_events = <<>> /\ find_task = "none" /\ relevancy_task = "none"
    /\ memory_tool_task = "none" /\ answer_rel = "none" /\ result = {}
    /\ db_url = <<>> /\ answer_an = NoVerdict /\ confirmation = <<>>
    /\ analysis_reply = NoReply
    /\ confirm_reply = <<>>
    /\ sql_query = <<>> /\ is_schema_modifying = FALSE /\ execution_error = "none"
    /\ executed = <<>> /\ healed_exec_ok = FALSE /\ refreshCalls = 0
    /\ schema_graph = "present" /\ refresh_env = NoRefresh
    /\ background = [t \in BackgroundTasks |-> "none"] /\ saved = <<>>

\* no function application is under way
NoCall == [fn |-> "none"]

PureIdle == call = NoCall /\ called = FALSE /\ ret = <<>>

Init ==
    /\ generalPrefix \in PrefixConfigs
    /\ PipeIdle
    /\ HealIdle
    /\ PureIdle

\* -------------------------------------------------------------------------
\* query_database (text2sql.py 203-662)
\* -------------------------------------------------------------------------
EmitBoth(evs, twin_evs) ==
    /\ events' = events \o evs
    /\ twin_events' = twin_events \o twin_evs

Emit(evs) == EmitBoth(evs, evs)

\* per-run state of a fresh call
FreshRun ==
    /\ events' = <<>> /\ twin_events' = <<>> /\ find_task' = "none" /\ relevancy_task' = "none"
    /\ answer_rel' = "none" /\ result' = {} /\ db_url' = <<>>
    /\ answer_an' = NoVerdict /\ analysis_reply' = NoReply
    /\ is_schema_modifying' = FALSE
    /\ execution_error' = "none" /\ executed' = <<>> /\ refreshCalls' = 0
    /\ healed_exec_ok' = FALSE /\ awaited' = {}
    /\ schema_graph' = "present" /\ refresh_env' = NoRefresh
    /\ background' = [t \in BackgroundTasks |-> "none"] /\ saved' = <<>>

\* the call is rejected before any stream exists
Rejected(exc) ==
    /\ callError' = exc /\ op' = "idle" /\ pc' = "idle" /\ stream' = "none"
    /\ user_id' = <<>> /\ graph_id' = <<>> /\ memory_tool_task' = "none"
    /\ confirmation' = <<>> /\ sql_query' = <<>> /\ confirm_reply' = <<>>

\* the generator raised: the stream ends without a further event
Raise == /\ stream' = "raised" /\ pc' = "done"

\* lines 211-236: namespacing, history checks, creation of the memory-tool task
StartQuery(u, g, chat_ok) ==
    /\ stream \in {"none", "ended", "raised"}
    /\ runs < MaxRuns
    /\ runs' = runs + 1
    /\ FreshRun
    /\ IF GraphNameRaises(g) THEN Rejected("GraphNotFoundError")
       ELSE IF ~chat_ok THEN Rejected("InvalidArgumentError")
       ELSE /\ callError' = "none" /\ op' = "query" /\ pc' = "q_step1"
            /\ stream' = "open" /\ user_id' = u
            /\ graph_id' = GraphName(generalPrefix, u, g)
            /\ memory_tool_task' = "running"
            /\ confirmation' = <<>> /\ sql_query' = <<>> /\ confirm_reply' = <<>>
    /\ UNCHANGED << generalPrefix, awaiting, healVars, pureVars >>

\* lines 249-252
QStep1 ==
    /\ op = "query" /\ pc = "q_step1"
    /\ Emit(<< ReasoningStep("Step 1") >>)
    /\ pc' = "q_desc"
    /\ UNCHANGED << generalPrefix, runs, awaiting, awaited, op, stream, callError, user_id,
                    graph_id, find_task, relevancy_task, memory_tool_task, answer_rel,
                    result, db_url, answer_an, analysis_reply, confirm_reply,
                    confirmation, sql_query, is_schema_modifying, execution_error,
                    executed, healed_exec_ok, schema_graph, refresh_env, refreshCalls,
                    background, saved, healVars, pureVars >>

\* lines 254-277: get_db_description, loader detection, start of the two tasks
QGetDescription(raises, url) ==
    /\ op = "query" /\ pc = "q_desc"
    /\ IF raises
       THEN /\ Raise
            /\ UNCHANGED << events, twin_events, db_url, find_task, relevancy_task >>
       ELSE IF DatabaseType(url) = "none"
       THEN /\ Emit(<< ErrorEvent("Unable to determine database type") >>)
            /\ stream' = "ended" /\ pc' = "done" /\ db_url' = url
            /\ UNCHANGED << find_task, relevancy_task >>
       ELSE /\ db_url' = url
            /\ find_task' = "running" /\ relevancy_task' = "running"
            /\ pc' = "q_await_rel"
            /\ UNCHANGED << events, twin_events, stream >>
    /\ UNCHANGED << generalPrefix, runs, awaiting, awaited, op, callError, user_id, graph_id,
                    memory_tool_task, answer_rel, result, answer_an, analysis_reply,
                    confirm_reply, confirmation, sql_query, is_schema_modifying,
                    execution_error, executed, healed_exec_ok, schema_graph,
                    refresh_env, refreshCalls, background, saved, healVars, pureVars >>

\* graph.py find(): the retrieval task completes or fails on its own
FindTaskRun(ok, tables) ==
    /\ find_task = "running"
    /\ find_task' = IF ok THEN "done" ELSE "failed"
    /\ result' = IF ok THEN tables ELSE result
    /\ UNCHANGED << generalPrefix, runs, awaiting, awaited, op, pc, stream, callError, user_id,
                    graph_id, events, twin_events, relevancy_task, memory_tool_task, answer_rel,
                    db_url, answer_an, analysis_reply, confirm_reply, confirmation,
                    sql_query, is_schema_modifying, execution_error, executed,
                    healed_exec_ok, schema_graph, refresh_env, refreshCalls,
                    background, saved, healVars, pureVars >>

RelevancyAnswers == { "On-topic", "Off-topic", "Inappropriate", "nostatus" }

\* RelevancyAgent.get_answer: completes with a parsed answer or fails;
\* "nostatus" is the parse_response fallback, which has no status key
RelevancyTaskRun(ok, answer) ==
    /\ relevancy_task = "running"
    /\ relevancy_task' = IF ok THEN "done" ELSE "failed"
    /\ answer_rel' = IF ok THEN answer ELSE answer_rel
    /\ UNCHANGED << generalPrefix, runs, awaiting, awaited, op, pc, stream, callError, user_id,
                    graph_id, events, twin_events, find_task, memory_tool_task, result, db_url,
                    answer_an, analysis_reply, confirm_reply, confirmation, sql_query,
                    is_schema_modifying, execution_error, executed, healed_exec_ok,
                    schema_graph, refresh_env, refreshCalls, background, saved,
                    healVars, pureVars >>

\* MemoryTool.create started at line 236
MemoryToolTaskRun(ok) ==
    /\ memory_tool_task = "running"
    /\ memory_tool_task' = IF ok THEN "done" ELSE "failed"
    /\ UNCHANGED << generalPrefix, runs, awaiting, awaited, op, pc, stream, callError, user_id,
                    graph_id, events, twin_events, find_task, relevancy_task, answer_rel, result,
                    db_url, answer_an, analysis_reply, confirm_reply, confirmation,
                    sql_query, is_schema_modifying, execution_error, executed,
                    healed_exec_ok, schema_graph, refresh_env, refreshCalls,
                    background, saved, healVars, pureVars >>

\* lines 280-300, were a retrieval that has already finished used whatever
\* the relevancy answer
QAwaitRelevancy_UsesFinishedRetrieval ==
    /\ op = "query" /\ pc = "q_await_rel"
    /\ relevancy_task # "running"
    /\ IF relevancy_task = "failed" \/ answer_rel = "nostatus"
       THEN /\ Raise /\ UNCHANGED << events, twin_events, find_task >>
       ELSE IF answer_rel # "On-topic" /\ find_task # "done"
       THEN IF find_task = "failed"
            THEN \* await find_task re-raises the task's exception
                 /\ Raise /\ UNCHANGED << events, twin_events, find_task >>
            ELSE /\ find_task' = IF find_task = "running" THEN "cancelled" ELSE find_task
                 /\ Emit(<< OffTopicEvent >>)
                 /\ stream' = "ended" /\ pc' = "done"
       ELSE /\ pc' = "q_await_find"
            /\ UNCHANGED << events, twin_events, find_task, stream >>
    /\ awaited' = awaited \cup {"relevancy_task"}
                   \cup (IF /\ relevancy_task = "done"
                             /\ answer_rel \notin {"nostatus", "On-topic"}
                             /\ find_task # "done"
                          THEN {"find_task"} ELSE {})
    /\ UNCHANGED << generalPrefix, runs, awaiting, op, callError, user_id, graph_id,
                    relevancy_task, memory_tool_task, answer_rel, result, db_url,
                    answer_an, analysis_reply, confirm_reply, confirmation, sql_query,
                    is_schema_modifying, execution_error, executed, healed_exec_ok,
                    schema_graph, refresh_env, refreshCalls, background, saved,
                    healVars, pureVars >>

\* lines 280-300: await relevancy_task; off-topic cancels and awaits find_task
QAwaitRelevancy ==
    /\ op = "query" /\ pc = "q_await_rel"
    /\ relevancy_task # "running"
    /\ IF relevancy_task = "failed" \/ answer_rel = "nostatus"
       THEN /\ Raise /\ UNCHANGED << events, twin_events, find_task >>
       ELSE IF answer_rel # "On-topic"
       THEN IF find_task = "failed"
            THEN \* await find_task re-raises the task's exception
                 /\ Raise /\ UNCHANGED << events, twin_events, find_task >>
            ELSE /\ find_task' = IF find_task = "running" THEN "cancelled" ELSE find_task
                 /\ Emit(<< OffTopicEvent >>)
                 /\ stream' = "ended" /\ pc' = "done"
       ELSE /\ pc' = "q_await_find"
            /\ UNCHANGED << events, twin_events, find_task, stream >>
    /\ awaited' = awaited \cup {"relevancy_task"}
                   \cup (IF /\ relevancy_task = "done"
                             /\ answer_rel \notin {"nostatus", "On-topic"}
                          THEN {"find_task"} ELSE {})
    /\ UNCHANGED << generalPrefix, runs, awaiting, op, callError, user_id, graph_id,
                    relevancy_task, memory_tool_task, answer_rel, result, db_url,
                    answer_an, analysis_reply, confirm_reply, confirmation, sql_query,
                    is_schema_modifying, execution_error, executed, healed_exec_ok,
                    schema_graph, refresh_env, refreshCalls, background, saved,
                    healVars, pureVars >>

\* line 303: result = await find_task
QAwaitFind ==
    /\ op = "query" /\ pc = "q_await_find"
    /\ find_task \in {"done", "failed"}
    /\ IF find_task = "failed" THEN Raise ELSE pc' = "q_await_mem" /\ UNCHANGED stream
    /\ awaited' = awaited \cup {"find_task"}
    /\ UNCHANGED << generalPrefix, runs, awaiting, op, callError, user_id, graph_id,
                    events, twin_events, find_task, relevancy_task, memory_tool_task, answer_rel,
                    result, db_url, answer_an, analysis_reply, confirm_reply,
                    confirmation, sql_query, is_schema_modifying, execution_error,
                    executed, healed_exec_ok, schema_graph, refresh_env, refreshCalls,
                    background, saved, healVars, pureVars >>

\* lines 307-310: await memory_tool_task; search_memories catches its own errors
QAwaitMemoryTool ==
    /\ op = "query" /\ pc = "q_await_mem"
    /\ memory_tool_task \in {"done", "failed"}
    /\ IF memory_tool_task = "failed" THEN Raise
       ELSE pc' = "q_analysis" /\ UNCHANGED stream
    /\ awaited' = awaited \cup {"memory_tool_task"}
    /\ UNCHANGED << generalPrefix, runs, awaiting, op, callError, user_id, graph_id,
                    events, twin_events, find_task, relevancy_task, memory_tool_task, answer_rel,
                    result, db_url, answer_an, analysis_reply, confirm_reply,
                    confirmation, sql_query, is_schema_modifying, execution_error,
                    executed, healed_exec_ok, schema_graph, refresh_env, refreshCalls,
                    background, saved, healVars, pureVars >>

\* lines 313-335: get_analysis and the sql_query event; a failed model call or an
\* unparsable reply raises out of get_analysis
QAnalysis(raises, reply) ==
    /\ op = "query" /\ pc = "q_analysis"
    /\ analysis_reply' = IF raises THEN analysis_reply ELSE reply
    /\ IF raises \/ GetAnalysisRaises(reply)
       THEN Raise /\ UNCHANGED << events, twin_events, answer_an >>
       ELSE /\ answer_an' = GetAnalysis(reply)
            /\ Emit(<< SqlQueryEvent(GetAnalysis(reply)) >>)
            /\ pc' = IF GetAnalysis(reply).is_sql_translatable THEN "q_gate"
                     ELSE "q_followup"
            /\ UNCHANGED stream
    /\ UNCHANGED << generalPrefix, runs, awaiting, awaited, op, callError, user_id, graph_id,
                    find_task, relevancy_task, memory_tool_task, answer_rel, result,
                    db_url, confirm_reply, confirmation, sql_query,
                    is_schema_modifying, execution_error, executed, healed_exec_ok,
                    schema_graph, refresh_env, refreshCalls, background, saved,
                    healVars, pureVars >>

\* lines 338-442: auto-quoting, the destructive gate, the demo denial
QGate ==
    /\ op = "query" /\ pc = "q_gate"
    /\ LET quoted == AutoQuoteIdentifiers(answer_an.sql_query, result,
                                          GetQuoteChar(DatabaseType(db_url)))
           sql == IF quoted.modified THEN quoted.query ELSE answer_an.sql_query
           general_graph == IsGeneralGraph(generalPrefix, graph_id)
       IN /\ answer_an' = [answer_an EXCEPT !.sql_query = sql]
          /\ sql_query' = sql
          /\ IF SqlTypeRaises(sql)
             THEN /\ Raise
                  /\ UNCHANGED << events, twin_events, awaiting, is_schema_modifying >>
             ELSE IF IsDestructive(sql) /\ ~general_graph
             THEN /\ Emit(<< DestructiveConfirmationEvent(sql, SqlType(sql)) >>)
                  /\ awaiting' = awaiting \cup { << graph_id, sql >> }
                  /\ stream' = "ended" /\ pc' = "done"
                  /\ UNCHANGED is_schema_modifying
             ELSE IF IsDestructive(sql) /\ general_graph
             THEN /\ Emit(<< ErrorEvent("Destructive operation not allowed on demo graphs") >>)
                  /\ pc' = "q_memory"
                  /\ UNCHANGED << stream, awaiting, is_schema_modifying >>
             ELSE /\ Emit(<< ReasoningStep("Step 2") >>)
                  /\ is_schema_modifying' = LoaderIsSchemaModifyingQuery(DatabaseType(db_url), sql).modifying
                  /\ pc' = "q_exec"
                  /\ UNCHANGED << stream, awaiting >>
    /\ UNCHANGED << generalPrefix, runs, awaited, op, callError, user_id, graph_id, find_task,
                    relevancy_task, memory_tool_task, answer_rel, result, db_url,
                    analysis_reply, confirm_reply, confirmation, execution_error,
                    executed, healed_exec_ok, schema_graph, refresh_env, refreshCalls,
                    background, saved, healVars, pureVars >>

\* text2sql.py 457: HealerAgent().heal_query(...).  HealerAgent
\* (healer_agent.py 18-328) defines validate_sql_syntax, _build_healing_prompt,
\* heal_and_execute and _analyze_error: the attribute lookup raises.
HealQuery(failed_sql, error_message) ==
    [raised |-> TRUE, text |-> "AttributeError", healing_failed |-> TRUE,
     sql_query |-> failed_sql]

\* events and next position after a successful execution (lines 492-544)
AfterExecution(rows) ==
    (IF rows # "empty" THEN << QueryResultEvent(rows) >> ELSE <<>>)
    \o (IF is_schema_modifying THEN << ReasoningStep("Step 3") >>
        ELSE << ReasoningStep("Step 3: response") >>)

\* lines 444-499 and 569-581: what the execution step yields when the
\* exception of a failing execute_sql_query says text
ExecutionEvents(failed_sql, ok, rows, text, healed_ok) ==
    IF ok THEN AfterExecution(rows)
    ELSE LET healing_result == HealQuery(failed_sql, text)
         IN << ReasoningStep("Step 2a") >>
            \o (IF healing_result.raised \/ healing_result.healing_failed
                THEN << ErrorEvent("Error executing SQL query") >>
                ELSE << HealingAttemptEvent(text, healing_result.sql_query) >>
                     \o (IF healed_ok
                         THEN << HealingSuccessEvent >> \o AfterExecution(rows)
                         ELSE << ErrorEvent("Error executing SQL query") >>))

\* lines 444-499 and the handler at 569-581
QExecute(ok, rows, text, healed_ok) ==
    /\ op = "query" /\ pc = "q_exec"
    /\ \E twin_text \in ExcTexts \ {text} :
          EmitBoth(ExecutionEvents(answer_an.sql_query, ok, rows, text, healed_ok),
                   ExecutionEvents(answer_an.sql_query, ok, rows, twin_text,
                                   healed_ok))
    /\ healed_exec_ok' = IF ok THEN healed_exec_ok ELSE healed_ok
    /\ UNCHANGED << schema_graph, refresh_env >>
    /\ IF ok
       THEN /\ executed' = Append(executed, [sql |-> answer_an.sql_query, ok |-> TRUE])
            /\ pc' = IF is_schema_modifying THEN "q_refresh" ELSE "q_format"
            /\ UNCHANGED << execution_error, answer_an >>
       ELSE LET healing_result == HealQuery(answer_an.sql_query, text)
                failedCall == [sql |-> answer_an.sql_query, ok |-> FALSE]
            IN IF healing_result.raised
               THEN /\ executed' = Append(executed, failedCall)
                    /\ execution_error' = healing_result.text
                    /\ pc' = "q_memory"
                    /\ UNCHANGED answer_an
               ELSE IF healing_result.healing_failed
               THEN /\ executed' = Append(executed, failedCall)
                    /\ execution_error' = text
                    /\ pc' = "q_memory"
                    /\ UNCHANGED answer_an
               ELSE IF healed_ok
               THEN /\ executed' = executed \o << failedCall,
                             [sql |-> healing_result.sql_query, ok |-> TRUE] >>
                    /\ answer_an' = [answer_an EXCEPT !.sql_query = healing_result.sql_query]
                    /\ pc' = IF is_schema_modifying THEN "q_refresh" ELSE "q_format"
                    /\ UNCHANGED execution_error
               ELSE /\ executed' = executed \o << failedCall,
                             [sql |-> healing_result.sql_query, ok |-> FALSE] >>
                    /\ execution_error' = text
                    /\ pc' = "q_memory"
                    /\ UNCHANGED answer_an
    /\ UNCHANGED << generalPrefix, runs, awaiting, awaited, op, stream, callError, user_id,
                    graph_id, find_task, relevancy_task, memory_tool_task, answer_rel,
                    result, db_url, analysis_reply, confirm_reply, confirmation,
                    sql_query, is_schema_modifying, refreshCalls, background, saved,
                    healVars, pureVars >>

QRefresh_FailsRun(delete_ok, load_ok) ==
    /\ op = "query" /\ pc = "q_refresh"
    /\ refreshCalls' = refreshCalls + 1
    /\ refresh_env' = [delete_ok |-> delete_ok, load_ok |-> load_ok]
    /\ \E text \in ExcTexts, twin_text \in ExcTexts :
       LET refresh_result == RefreshGraphSchema(delete_ok, load_ok, text)
           twin_result == RefreshGraphSchema(delete_ok, load_ok, twin_text)
           operation == LoaderIsSchemaModifyingQuery(DatabaseType(db_url),
                                                     sql_query).operation
       IN /\ text # twin_text
          /\ schema_graph' = refresh_result.graph
          /\ IF refresh_result.success
             THEN /\ EmitBoth(<< SchemaRefreshEvent(refresh_result, operation),
                                 ReasoningStep("Step 4: response") >>,
                              << SchemaRefreshEvent(twin_result, operation),
                                 ReasoningStep("Step 4: response") >>)
                  /\ pc' = "q_format"
                  /\ UNCHANGED execution_error
             ELSE /\ EmitBoth(<< SchemaRefreshEvent(refresh_result, operation),
                                 ErrorEvent("Error executing SQL query") >>,
                              << SchemaRefreshEvent(twin_result, operation),
                                 ErrorEvent("Error executing SQL query") >>)
                  /\ execution_error' = refresh_result.message
                  /\ pc' = "q_memory"
    /\ UNCHANGED << generalPrefix, runs, awaiting, awaited, op, stream, callError, user_id,
                    graph_id, find_task, relevancy_task, memory_tool_task, answer_rel,
                    result, db_url, answer_an, analysis_reply, confirm_reply,
                    confirmation, sql_query, is_schema_modifying, executed,
                    healed_exec_ok, background, saved, healVars, pureVars >>

\* lines 501-544: refresh_graph_schema returns (success, message), never raises
QRefresh(delete_ok, load_ok) ==
    /\ op = "query" /\ pc = "q_refresh"
    /\ refreshCalls' = refreshCalls + 1
    /\ refresh_env' = [delete_ok |-> delete_ok, load_ok |-> load_ok]
    /\ \E text \in ExcTexts, twin_text \in ExcTexts :
       LET refresh_result == RefreshGraphSchema(delete_ok, load_ok, text)
           twin_result == RefreshGraphSchema(delete_ok, load_ok, twin_text)
           operation == LoaderIsSchemaModifyingQuery(DatabaseType(db_url),
                                                     sql_query).operation
       IN /\ text # twin_text
          /\ schema_graph' = refresh_result.graph
          /\ EmitBoth(<< SchemaRefreshEvent(refresh_result, operation),
                         ReasoningStep("Step 4: response") >>,
                      << SchemaRefreshEvent(twin_result, operation),
                         ReasoningStep("Step 4: response") >>)
    /\ pc' = "q_format"
    /\ UNCHANGED << generalPrefix, runs, awaiting, awaited, op, stream, callError, user_id,
                    graph_id, find_task, relevancy_task, memory_tool_task, answer_rel,
                    result, db_url, answer_an, analysis_reply, confirm_reply,
                    confirmation, sql_query, is_schema_modifying, execution_error,
                    executed, healed_exec_ok, background, saved, healVars, pureVars >>

\* lines 546-581: format_response, ai_response, or the handler's error event
QFormat(ok, text) ==
    /\ op = "query" /\ pc = "q_format"
    /\ IF ok
       THEN Emit(<< AiResponseEvent >>) /\ UNCHANGED execution_error
       ELSE /\ execution_error' = text
            /\ Emit(<< ErrorEvent("Error executing SQL query") >>)
    /\ pc' = "q_memory"
    /\ UNCHANGED << generalPrefix, runs, awaiting, awaited, op, stream, callError, user_id,
                    graph_id, find_task, relevancy_task, memory_tool_task, answer_rel,
                    result, db_url, answer_an, analysis_reply, confirm_reply,
                    confirmation, sql_query, is_schema_modifying, executed,
                    healed_exec_ok, schema_graph, refresh_env, refreshCalls,
                    background, saved, healVars, pureVars >>

\* lines 582-603: generate_follow_up_question catches its own errors
QFollowUp ==
    /\ op = "query" /\ pc = "q_followup"
    /\ execution_error' = "Missing information"
    /\ Emit(<< FollowUpEvent >>)
    /\ pc' = "q_memory"
    /\ UNCHANGED << generalPrefix, runs, awaiting, awaited, op, stream, callError, user_id,
                    graph_id, find_task, relevancy_task, memory_tool_task, answer_rel,
                    result, db_url, answer_an, analysis_reply, confirm_reply,
                    confirmation, sql_query, is_schema_modifying, executed,
                    healed_exec_ok, schema_graph, refresh_env, refreshCalls,
                    background, saved, healVars, pureVars >>

\* lines 605-660: the three memory tasks are created and the generator returns
QScheduleMemory ==
    /\ op = "query" /\ pc = "q_memory"
    /\ background' = [t \in BackgroundTasks |-> "scheduled"]
    /\ saved' = Append(saved, [sql |-> answer_an.sql_query,
                               success |-> (execution_error = "none"),
                               error |-> execution_error])
    /\ stream' = "ended" /\ pc' = "done"
    /\ UNCHANGED << generalPrefix, runs, awaiting, awaited, op, callError, user_id, graph_id,
                    events, twin_events, find_task, relevancy_task, memory_tool_task, answer_rel,
                    result, db_url, answer_an, analysis_reply, confirm_reply,
                    confirmation, sql_query, is_schema_modifying, execution_error,
                    executed, healed_exec_ok, schema_graph, refresh_env, refreshCalls,
                    healVars, pureVars >>

BackgroundTaskRun_Surfaces(t, ok) ==
    /\ background[t] = "scheduled"
    /\ background' = [background EXCEPT ![t] = IF ok THEN "done" ELSE "failed"]
    /\ Emit(IF ok THEN <<>> ELSE << ErrorEvent("memory task failed") >>)
    /\ UNCHANGED << generalPrefix, runs, awaiting, awaited, op, pc, stream, callError, user_id,
                    graph_id, find_task, relevancy_task, memory_tool_task, answer_rel,
                    result, db_url, answer_an, analysis_reply, confirm_reply,
                    confirmation, sql_query, is_schema_modifying, execution_error,
                    executed, healed_exec_ok, schema_graph, refresh_env, refreshCalls,
                    saved, healVars, pureVars >>

\* a fire-and-forget memory task completes; its done-callback only logs
BackgroundTaskRun(t, ok) ==
    /\ background[t] = "scheduled"
    /\ background' = [background EXCEPT ![t] = IF ok THEN "done" ELSE "failed"]
    /\ UNCHANGED << generalPrefix, runs, awaiting, awaited, op, pc, stream, callError, user_id,
                    graph_id, events, twin_events, find_task, relevancy_task, memory_tool_task,
                    answer_rel, result, db_url, answer_an, analysis_reply,
                    confirm_reply, confirmation, sql_query, is_schema_modifying,
                    execution_error, executed, healed_exec_ok, schema_graph,
                    refresh_env, refreshCalls, saved, healVars, pureVars >>

\* -------------------------------------------------------------------------
\* execute_destructive_operation (text2sql.py 665-855); its events carry no
\* final_response field
\* -------------------------------------------------------------------------
CStep(msg) == [type |-> "reasoning_step", message |-> msg]

CError(msg) == [type |-> "error", message |-> msg]

CQueryResult(rows) == [type |-> "query_result", data |-> rows]

CSchemaRefresh(refresh_result, operation_type) ==
    [type |-> "schema_refresh",
     message |-> IF refresh_result.success
                 THEN << "Schema change detected", operation_type >>
                 ELSE << "graph refresh failed", refresh_result.message >>,
     refresh_status |-> IF refresh_result.success THEN "success" ELSE "failed"]

CAiResponse == [type |-> "ai_response"]

CCancelled == [type |-> "operation_cancelled"]

\* lines 674-685: namespacing, normalisation of the reply, statement check
StartConfirm(u, g, sql, reply) ==
    /\ stream \in {"none", "ended", "raised"}
    /\ runs < MaxRuns
    /\ runs' = runs + 1
    /\ FreshRun
    /\ IF GraphNameRaises(g) THEN Rejected("GraphNotFoundError")
       ELSE IF sql = <<>> THEN Rejected("InvalidArgumentError")
       ELSE /\ callError' = "none" /\ op' = "confirm" /\ pc' = "c_memtool"
            /\ stream' = "open" /\ user_id' = u
            /\ graph_id' = GraphName(generalPrefix, u, g)
            /\ memory_tool_task' = "none"
            /\ confirm_reply' = reply
            /\ confirmation' = Upper(Strip(reply))
            /\ sql_query' = sql
    /\ UNCHANGED << generalPrefix, awaiting, healVars, pureVars >>

\* lines 843-845: the event of the except block; str(e) is logged and saved
CExceptEvents(text) == << CError("Error executing query") >>

\* the except block at lines 822-845, entered after line 711 bound sql_query
CExceptPath(sql, text) ==
    /\ saved' = Append(saved, [sql |-> sql, success |-> FALSE, error |-> text])
    /\ background' = [background EXCEPT !["save_query_memory"] = "scheduled"]
    /\ \E twin_text \in ExcTexts \ {text} :
          EmitBoth(CExceptEvents(text), CExceptEvents(twin_text))
    /\ stream' = "ended" /\ pc' = "done"

CMemoryTool_AnyReply(ok) ==
    /\ op = "confirm" /\ pc = "c_memtool"
    /\ IF ~ok THEN Raise /\ UNCHANGED << events, twin_events >>
       ELSE IF confirmation # <<>>
       THEN pc' = "c_desc" /\ UNCHANGED << events, twin_events, stream >>
       ELSE /\ Emit(<< CCancelled >>)
            /\ stream' = "ended" /\ pc' = "done"
    /\ UNCHANGED << generalPrefix, runs, awaiting, awaited, op, callError, user_id, graph_id,
                    find_task, relevancy_task, memory_tool_task, answer_rel, result,
                    db_url, answer_an, analysis_reply, confirm_reply, confirmation,
                    sql_query, is_schema_modifying, execution_error, executed,
                    healed_exec_ok, schema_graph, refresh_env, refreshCalls,
                    background, saved, healVars, pureVars >>

\* lines 690-692 and 846-853: MemoryTool.create is awaited outside the try block
CMemoryTool(ok) ==
    /\ op = "confirm" /\ pc = "c_memtool"
    /\ IF ~ok THEN Raise /\ UNCHANGED << events, twin_events >>
       ELSE IF confirmation = <<"CONFIRM">>
       THEN pc' = "c_desc" /\ UNCHANGED << events, twin_events, stream >>
       ELSE /\ Emit(<< CCancelled >>)
            /\ stream' = "ended" /\ pc' = "done"
    /\ UNCHANGED << generalPrefix, runs, awaiting, awaited, op, callError, user_id, graph_id,
                    find_task, relevancy_task, memory_tool_task, answer_rel, result,
                    db_url, answer_an, analysis_reply, confirm_reply, confirmation,
                    sql_query, is_schema_modifying, execution_error, executed,
                    healed_exec_ok, schema_graph, refresh_env, refreshCalls,
                    background, saved, healVars, pureVars >>

\* lines 694-708.  sql_query is assigned at lines 711 and 741, so it is a local
\* of generate_confirmation: when get_db_description raises, the except block
\* reads it unbound at line 830 and the UnboundLocalError leaves the generator
CGetDescription(raises, url) ==
    /\ op = "confirm" /\ pc = "c_desc"
    /\ IF raises
       THEN Raise /\ UNCHANGED << events, twin_events, db_url, saved, background >>
       ELSE IF DatabaseType(url) = "none"
       THEN /\ Emit(<< CError("Unable to determine database type") >>)
            /\ stream' = "ended" /\ pc' = "done" /\ db_url' = url
            /\ UNCHANGED << saved, background >>
       ELSE /\ Emit(<< CStep("Step 2") >>)
            /\ db_url' = url /\ pc' = "c_exec"
            /\ UNCHANGED << saved, background, stream >>
    /\ UNCHANGED << generalPrefix, runs, awaiting, awaited, op, callError, user_id, graph_id,
                    find_task, relevancy_task, memory_tool_task, answer_rel, result,
                    answer_an, analysis_reply, confirm_reply, confirmation, sql_query,
                    is_schema_modifying, execution_error, executed, healed_exec_ok,
                    schema_graph, refresh_env, refreshCalls, healVars, pureVars >>

\* lines 710-759: table lookup for quoting, schema check, execution
CExecute(tables_ok, tables, ok, rows, text) ==
    /\ op = "confirm" /\ pc = "c_exec"
    /\ LET known_tables == IF tables_ok THEN tables ELSE {}
           quoted == AutoQuoteIdentifiers(sql_query, known_tables,
                                          GetQuoteChar(DatabaseType(db_url)))
           sql == IF quoted.modified THEN quoted.query ELSE sql_query
           modifying == LoaderIsSchemaModifyingQuery(DatabaseType(db_url), sql).modifying
       IN /\ sql_query' = sql
          /\ result' = known_tables
          /\ is_schema_modifying' = modifying
          /\ executed' = Append(executed, [sql |-> sql, ok |-> ok])
          /\ UNCHANGED << healed_exec_ok, schema_graph, refresh_env >>
          /\ IF ok
             THEN /\ Emit(<< CQueryResult(rows) >>
                          \o (IF modifying THEN << CStep("Step 3") >>
                              ELSE << CStep("Step 3: response") >>))
                  /\ pc' = IF modifying THEN "c_refresh" ELSE "c_format"
                  /\ UNCHANGED << saved, background, stream >>
             ELSE CExceptPath(sql, text)
    /\ UNCHANGED << generalPrefix, runs, awaiting, awaited, op, callError, user_id, graph_id,
                    find_task, relevancy_task, memory_tool_task, answer_rel, db_url,
                    answer_an, analysis_reply, confirm_reply, confirmation,
                    execution_error, refreshCalls, healVars, pureVars >>

\* lines 761-789
CRefresh(delete_ok, load_ok) ==
    /\ op = "confirm" /\ pc = "c_refresh"
    /\ refreshCalls' = refreshCalls + 1
    /\ refresh_env' = [delete_ok |-> delete_ok, load_ok |-> load_ok]
    /\ \E text \in ExcTexts, twin_text \in ExcTexts :
       LET refresh_result == RefreshGraphSchema(delete_ok, load_ok, text)
           twin_result == RefreshGraphSchema(delete_ok, load_ok, twin_text)
           operation == LoaderIsSchemaModifyingQuery(DatabaseType(db_url),
                                                     sql_query).operation
       IN /\ text # twin_text
          /\ schema_graph' = refresh_result.graph
          /\ EmitBoth(<< CSchemaRefresh(refresh_result, operation),
                         CStep("Step 4: response") >>,
                      << CSchemaRefresh(twin_result, operation),
                         CStep("Step 4: response") >>)
    /\ pc' = "c_format"
    /\ UNCHANGED << generalPrefix, runs, awaiting, awaited, op, stream, callError, user_id,
                    graph_id, find_task, relevancy_task, memory_tool_task, answer_rel,
                    result, db_url, answer_an, analysis_reply, confirm_reply,
                    confirmation, sql_query, is_schema_modifying, execution_error,
                    executed, healed_exec_ok, background, saved, healVars, pureVars >>

\* lines 791-820, or the except block when format_response raises
CFormat(ok, text) ==
    /\ op = "confirm" /\ pc = "c_format"
    /\ IF ok
       THEN /\ Emit(<< CAiResponse >>)
            /\ saved' = Append(saved, [sql |-> sql_query, success |-> TRUE,
                                       error |-> "none"])
            /\ background' = [background EXCEPT !["save_query_memory"] = "scheduled"]
            /\ stream' = "ended" /\ pc' = "done"
       ELSE CExceptPath(sql_query, text)
    /\ UNCHANGED << generalPrefix, runs, awaiting, awaited, op, callError, user_id, graph_id,
                    find_task, relevancy_task, memory_tool_task, answer_rel, result,
                    db_url, answer_an, analysis_reply, confirm_reply, confirmation,
                    sql_query, is_schema_modifying, execution_error, executed,
                    healed_exec_ok, schema_graph, refresh_env, refreshCalls, healVars,
                    pureVars >>

\* -------------------------------------------------------------------------
\* The pipeline: calls arrive one after the other, tasks run concurrently
\* -------------------------------------------------------------------------
Next ==
    \/ \E u \in UserIds, g \in GraphIdInputs, c \in BOOLEAN : StartQuery(u, g, c)
    \/ QStep1
    \/ \E r \in BOOLEAN, url \in DbUrls : QGetDescription(r, url)
    \/ \E ok \in BOOLEAN, t \in KnownTableSets : FindTaskRun(ok, t)
    \/ \E ok \in BOOLEAN, a \in RelevancyAnswers : RelevancyTaskRun(ok, a)
    \/ \E ok \in BOOLEAN : MemoryToolTaskRun(ok)
    \/ QAwaitRelevancy
    \/ QAwaitFind
    \/ QAwaitMemoryTool
    \/ \E r \in BOOLEAN, reply \in AnalysisReplies : QAnalysis(r, reply)
    \/ QGate
    \/ \E ok \in BOOLEAN, rows \in {"empty", "rows"}, text \in ExcTexts,
          hok \in BOOLEAN : QExecute(ok, rows, text, hok)
    \/ \E dok \in BOOLEAN, lok \in BOOLEAN : QRefresh(dok, lok)
    \/ \E ok \in BOOLEAN, text \in ExcTexts : QFormat(ok, text)
    \/ QFollowUp
    \/ QScheduleMemory
    \/ \E t \in BackgroundTasks, ok \in BOOLEAN : BackgroundTaskRun(t, ok)
    \/ \E u \in UserIds, g \in GraphIdInputs, s \in SqlStatements, r \in Replies :
          StartConfirm(u, g, s, r)
    \/ \E ok \in BOOLEAN : CMemoryTool(ok)
    \/ \E r \in BOOLEAN, url \in DbUrls : CGetDescription(r, url)
    \/ \E tok \in BOOLEAN, t \in KnownTableSets, ok \in BOOLEAN,
          rows \in {"empty", "rows"}, text \in ExcTexts : CExecute(tok, t, ok, rows, text)
    \/ \E dok \in BOOLEAN, lok \in BOOLEAN : CRefresh(dok, lok)
    \/ \E ok \in BOOLEAN, text \in ExcTexts : CFormat(ok, text)

Spec == Init /\ [][Next]_vars

\* -------------------------------------------------------------------------
\* HealerAgent (api/agents/healer_agent.py)
\* -------------------------------------------------------------------------
\* statements handed to the healer and proposed by the healing model
HealerStatements ==
    { <<"SELECT", " ", "*", " ", "FROM", " ", "users">>,
      <<"SELECT", " ", "(", "*">>,
      <<")", " ", "users", " ", "(">>,
      <<>> }

\* atoms whose upper-cased text contains one of SELECT, INSERT, UPDATE, DELETE,
\* WITH, CREATE
HasSqlKeyword(a) ==
    UpperAtom(a) \in {"SELECT", "INSERT", "UPDATE", "DELETE", "WITH", "CREATE", "DELETE;"}

\* lines 69-77: the scan stops at the first closing parenthesis that goes negative
RECURSIVE ParenScan(_, _)
ParenScan(s, paren_count) ==
    IF s = <<>> THEN [negative |-> FALSE, paren_count |-> paren_count]
    ELSE IF Head(s) = "(" THEN ParenScan(Tail(s), paren_count + 1)
    ELSE IF Head(s) = ")"
         THEN IF paren_count - 1 < 0
              THEN [negative |-> TRUE, paren_count |-> paren_count - 1]
              ELSE ParenScan(Tail(s), paren_count - 1)
    ELSE ParenScan(Tail(s), paren_count)

\* validate_sql_syntax (lines 31-90)
ValidateSqlSyntax(sql) ==
    LET query == Strip(sql)
        query_upper == Upper(query)
        has_sql_keywords == \E i \in DOMAIN query_upper : HasSqlKeyword(query_upper[i])
        scan == ParenScan(query, 0)
        dropTable == \E i \in DOMAIN query_upper :
                        /\ query_upper[i] = "DROP"
                        /\ AfterSpaces(query_upper, i) # 0
                        /\ query_upper[AfterSpaces(query_upper, i)] = "TABLE"
        truncate == \E i \in DOMAIN query_upper : query_upper[i] = "TRUNCATE"
        deleteFrom == \E i \in DOMAIN query_upper :
                        /\ query_upper[i] = "DELETE"
                        /\ AfterSpaces(query_upper, i) # 0
                        /\ query_upper[AfterSpaces(query_upper, i)] = "FROM"
                        /\ AfterSpaces(query_upper, AfterSpaces(query_upper, i))
                              = Len(query_upper)
                        /\ IdentifierPart(query_upper[Len(query_upper)]) # ""
        hasSelect == \E i \in DOMAIN query_upper : query_upper[i] = "SELECT"
        hasFrom == \E i \in DOMAIN query_upper : query_upper[i] \in {"FROM", "DUAL"}
        errors ==
            (IF has_sql_keywords THEN <<>>
             ELSE << "Query does not contain valid SQL keywords" >>)
            \o (IF scan.negative THEN << "Unbalanced parentheses in query" >> ELSE <<>>)
            \o (IF scan.paren_count # 0 THEN << "Unbalanced parentheses in query" >>
                ELSE <<>>)
        warnings ==
            (IF dropTable THEN << "dangerous: DROP TABLE" >> ELSE <<>>)
            \o (IF truncate THEN << "dangerous: TRUNCATE" >> ELSE <<>>)
            \o (IF deleteFrom THEN << "dangerous: DELETE FROM" >> ELSE <<>>)
            \o (IF hasSelect /\ ~hasFrom THEN << "SELECT query missing FROM clause" >>
                ELSE <<>>)
    IN IF query = <<>>
       THEN [is_valid |-> FALSE, errors |-> << "Query is empty" >>, warnings |-> <<>>]
       ELSE [is_valid |-> Len(errors) = 0, errors |-> errors, warnings |-> warnings]

\* replies of the healing model: a JSON object with a sql_query, or text that
\* parse_response cannot parse (its fallback has no sql_query key)
HealerReplies ==
    { [json |-> TRUE, sql_query |-> s] : s \in HealerStatements }
    \cup { [json |-> FALSE, sql_query |-> <<"not json">>] }

\* lines 238-239: parse_response(content).get("sql_query", "")
HealedSqlOf(reply) == IF reply.json THEN reply.sql_query ELSE <<>>

AttemptsMade_ZeroBased(a) == a

\* lines 255 and 265: the number of attempts reported for loop index a
AttemptsMade(a) == a + 1

\* line 260: the attempt was the last one
IsLastAttempt(a, max) == a >= max - 1

HealStart_KeepsTranscript(max, sql, err) ==
    /\ hpc \in {"idle", "returned", "raised"}
    /\ sessions < MaxSessions
    /\ sessions' = sessions + 1
    /\ max_healing_attempts' = max
    /\ initial_sql' = sql /\ initial_error' = err
    /\ messages' = messages \o << [role |-> "user", kind |-> "prompt", sql |-> sql,
                       error |-> err,
                       syntax_errors |-> ValidateSqlSyntax(sql).errors,
                       warnings |-> ValidateSqlSyntax(sql).warnings] >>
    /\ attempt' = 0
    /\ hpc' = "loop"
    /\ healed_sql' = <<>> /\ error' = "none" /\ llmCalls' = 0 /\ execLog' = <<>>
    /\ healResult' = [returned |-> FALSE]
    /\ UNCHANGED << pipeVars, pureVars >>

\* lines 203-223: reset of the transcript, validation, the initial prompt
HealStart(max, sql, err) ==
    /\ hpc \in {"idle", "returned", "raised"}
    /\ sessions < MaxSessions
    /\ sessions' = sessions + 1
    /\ max_healing_attempts' = max
    /\ initial_sql' = sql /\ initial_error' = err
    /\ messages' = << [role |-> "user", kind |-> "prompt", sql |-> sql,
                       error |-> err,
                       syntax_errors |-> ValidateSqlSyntax(sql).errors,
                       warnings |-> ValidateSqlSyntax(sql).warnings] >>
    /\ attempt' = 0
    /\ hpc' = "loop"
    /\ healed_sql' = <<>> /\ error' = "none" /\ llmCalls' = 0 /\ execLog' = <<>>
    /\ healResult' = [returned |-> FALSE]
    /\ UNCHANGED << pipeVars, pureVars >>

\* lines 225-239: one model call of the loop; the reply joins the transcript
HealCallModel(raises, reply) ==
    /\ hpc = "loop" /\ attempt < max_healing_attempts
    /\ llmCalls' = llmCalls + 1
    /\ IF raises
       THEN /\ hpc' = "raised"
            /\ UNCHANGED << messages, healed_sql >>
       ELSE /\ messages' = Append(messages, [role |-> "assistant", kind |-> "reply",
                                             sql |-> HealedSqlOf(reply),
                                             json |-> reply.json])
            /\ healed_sql' = HealedSqlOf(reply)
            /\ hpc' = "exec"
    /\ UNCHANGED << max_healing_attempts, attempt, initial_sql, initial_error, error,
                    execLog, healResult, sessions, pipeVars, pureVars >>

\* lines 241-280: execution of the healed statement, return or feedback
HealExecute(ok, err) ==
    /\ hpc = "exec"
    /\ execLog' = Append(execLog, [sql |-> healed_sql, ok |-> ok,
                                    error |-> IF ok THEN "none" ELSE err])
    /\ IF ok
       THEN /\ healResult' = [returned |-> TRUE, success |-> TRUE,
                              sql_query |-> healed_sql, attempts |-> AttemptsMade(attempt),
                              final_error |-> "none"]
            /\ hpc' = "returned"
            /\ UNCHANGED << error, messages, attempt >>
       ELSE /\ error' = err
            /\ IF IsLastAttempt(attempt, max_healing_attempts)
               THEN /\ healResult' = [returned |-> TRUE, success |-> FALSE,
                                      sql_query |-> healed_sql,
                                      attempts |-> AttemptsMade(attempt), final_error |-> err]
                    /\ hpc' = "returned"
                    /\ UNCHANGED << messages, attempt >>
               ELSE /\ messages' = Append(messages, [role |-> "user", kind |-> "feedback",
                                                     sql |-> healed_sql, error |-> err])
                    /\ attempt' = attempt + 1
                    /\ hpc' = "loop"
                    /\ UNCHANGED healResult
    /\ UNCHANGED << max_healing_attempts, initial_sql, initial_error, healed_sql,
                    llmCalls, sessions, pipeVars, pureVars >>

\* lines 282-289: the return after the loop
HealFallback ==
    /\ hpc = "loop" /\ ~(attempt < max_healing_attempts)
    /\ healResult' = [returned |-> TRUE, success |-> FALSE, sql_query |-> initial_sql,
                      attempts |-> max_healing_attempts, final_error |-> initial_error]
    /\ hpc' = "returned"
    /\ UNCHANGED << max_healing_attempts, attempt, messages, initial_sql,
                    initial_error, healed_sql, error, llmCalls, execLog, sessions, pipeVars,
                    pureVars >>

NextHeal ==
    \/ \E max \in 0..MaxAttemptsBound, s \in HealerStatements, e \in ExcTexts :
          HealStart(max, s, e)
    \/ \E r \in BOOLEAN, reply \in HealerReplies : HealCallModel(r, reply)
    \/ \E ok \in BOOLEAN, e \in ExcTexts : HealExecute(ok, e)
    \/ HealFallback

SpecHeal == Init /\ [][NextHeal]_vars

\* heal_and_execute is sequential code whose calls return: a step that can be
\* taken is eventually taken
SpecHealFair == SpecHeal /\ WF_vars(NextHeal)

\* -------------------------------------------------------------------------
\* Functions applied to one input each
\* -------------------------------------------------------------------------
\* statements given to is_schema_modifying_query
SchemaStatements ==
    SqlStatements \cup
    { <<"CREATE", " ", "TABLE", " ", "users">>,
      <<" ", "create", " ", "index", " ", "users">>,
      <<"CREATE", " ", "DATABASE", " ", "users">>,
      <<"alter", " ", "table", " ", "users">>,
      <<"TRUNCATE", " ", "users">>,
      <<"truncate">>,
      <<"DROP", " ", "VIEW", " ", "users">>,
      <<"INSERT", " ", "users">>,
      <<"UPDATE", " ", "users">>,
      <<"users", " ", "DROP", " ", "TABLE">> }

SchemaCalls == { [fn |-> "is_schema_modifying_query", sql |-> s] : s \in SchemaStatements }

\* api/config.py 77
SHORT_MEMORY_LENGTH == 5

\* chat histories of a request: question i of the conversation is i, the answer
\* to question i is i; result is None or a list of any length
NoResults == [is_none |-> TRUE, items |-> <<>>]

Results(k) == [is_none |-> FALSE, items |-> [i \in 1..k |-> i]]

HistoryCalls ==
    { [fn |-> "truncate_history", queries_history |-> [i \in 1..m |-> i],
       result_history |-> r] :
         m \in 1..MaxHistory, r \in {NoResults} \cup { Results(k) : k \in 0..MaxHistory } }

\* s[-n:] for n > 0
LastItems(s, n) == IF Len(s) <= n THEN s ELSE SubSeq(s, Len(s) - n + 1, Len(s))

MaxResults_SameAsQuestions == SHORT_MEMORY_LENGTH

\* text2sql.py 228
MaxResults == SHORT_MEMORY_LENGTH - 1

\* text2sql.py 223-232: [queries_history, result_history] after truncation
TruncateHistory(queries_history, result_history) ==
    IF Len(queries_history) > SHORT_MEMORY_LENGTH
    THEN [queries_history |-> LastItems(queries_history, SHORT_MEMORY_LENGTH),
          result_history |->
              IF ~result_history.is_none /\ Len(result_history.items) > 0
              THEN IF MaxResults > 0
                   THEN [result_history EXCEPT
                            !.items = LastItems(result_history.items, MaxResults)]
                   ELSE [result_history EXCEPT !.items = <<>>]
              ELSE result_history]
    ELSE [queries_history |-> queries_history, result_history |-> result_history]

\* BaseAgent.__init__ (agents/utils.py 10-18): zip(queries_history[:-1],
\* result_history) as the sequence of (question, answer) pairs
BaseAgentMessages(queries_history, result_history) ==
    IF result_history.is_none THEN <<>>
    ELSE LET n == IF Len(queries_history) - 1 < Len(result_history.items)
                  THEN Len(queries_history) - 1 ELSE Len(result_history.items)
         IN [i \in 1..n |-> << queries_history[i], result_history.items[i] >>]

\* rows of the retrieval queries of graph.py: [name, description, foreign_keys,
\* columns]; the columns arrive as ordered maps; none_fields names the fields
\* of the row that are None
TableDescriptors ==
    { [name |-> n, description |-> d,
       foreign_keys |-> IF "foreign_keys" \in nf THEN <<>> ELSE << d, "fk" >>,
       columns |-> IF "columns" \in nf THEN <<>>
                   ELSE << [kind |-> "OrderedDict", name |-> "id"] >>,
       none_fields |-> nf] :
         n \in {"users", "orders"}, d \in {"first", "second"},
         nf \in { {}, {"foreign_keys"}, {"columns"} } }

RECURSIVE TableLists(_)
TableLists(n) ==
    IF n = 0 THEN { <<>> }
    ELSE TableLists(n - 1)
         \cup { Append(l, t) : l \in { x \in TableLists(n - 1) : Len(x) = n - 1 },
                               t \in TableDescriptors }

UniqueTablesCalls ==
    { [fn |-> "_get_unique_tables", tables_list |-> l] : l \in TableLists(MaxTables) }

\* graph.py 377-379: what is stored for a table name seen for the first time
StoredTableInfo(table_info) ==
    [table_info EXCEPT
        !.columns = [i \in DOMAIN table_info.columns |->
                        [table_info.columns[i] EXCEPT !.kind = "dict"]],
        !.foreign_keys = << "Foreign keys: " >> \o table_info.foreign_keys]

\* graph.py 377-378: dict(od) for od in None and "Foreign keys: " + None raise
ConversionRaises(table_info) == table_info.none_fields # {}

UniqueTablesStep_StoresBeforeConverting(unique_tables, table_info) ==
    IF \E i \in DOMAIN unique_tables : unique_tables[i].name = table_info.name
    THEN unique_tables
    ELSE IF ConversionRaises(table_info)
    THEN Append(unique_tables, table_info)
    ELSE Append(unique_tables, StoredTableInfo(table_info))

\* graph.py 371-382: one pass of the loop on unique_tables; a row whose
\* conversion raises is printed and not stored
UniqueTablesStep(unique_tables, table_info) ==
    IF \E i \in DOMAIN unique_tables : unique_tables[i].name = table_info.name
    THEN unique_tables
    ELSE IF ConversionRaises(table_info)
    THEN unique_tables
    ELSE Append(unique_tables, StoredTableInfo(table_info))

\* _get_unique_tables (graph.py 368-385): the values of unique_tables in
\* insertion order
RECURSIVE GetUniqueTables(_)
GetUniqueTables(tables_list) ==
    IF tables_list = <<>> THEN <<>>
    ELSE UniqueTablesStep(
             GetUniqueTables(SubSeq(tables_list, 1, Len(tables_list) - 1)),
             tables_list[Len(tables_list)])

\* a row of a graph search: name, description, foreign keys, columns
TableRow(n, d) ==
    [name |-> n, description |-> d, foreign_keys |-> << d, "fk" >>,
     columns |-> << [kind |-> "OrderedDict", name |-> "id"] >>, none_fields |-> {}]

\* what one of the four graph searches may return
SearchRows ==
    { <<>>, << TableRow("users", "first") >>,
      << TableRow("orders", "second"), TableRow("users", "second") >> }

\* find (graph.py 279-366) with the replies of its collaborators: the numbers
\* of table and column descriptions the model wrote, whether the embedding
\* call and each graph search return, and the rows each search returns
FindCalls ==
    { [fn |-> "find", tables_descriptions |-> nt, columns_descriptions |-> nc,
       embed_ok |-> eo, tables_ok |-> tk, columns_ok |-> ck, sphere_ok |-> so,
       route_ok |-> ro, tables |-> t, by_columns |-> c, by_sphere |-> sp,
       by_route |-> rt] :
         nt \in 0..1, nc \in 0..1, eo \in BOOLEAN, tk \in BOOLEAN, ck \in BOOLEAN,
         so \in BOOLEAN, ro \in BOOLEAN, t \in SearchRows, c \in SearchRows,
         sp \in SearchRows, rt \in SearchRows }

\* _find_tables_sphere (graph.py 181-216): a failing query is logged and the
\* search yields no rows
FindTablesSphere_Uncaught(ok, rows) ==
    [raised |-> ~ok, rows |-> IF ok THEN rows ELSE <<>>]

FindTablesSphere(ok, rows) ==
    [raised |-> FALSE, rows |-> IF ok THEN rows ELSE <<>>]

\* _find_connecting_tables (graph.py 219-276): no query without a pair of
\* names; a failing query is logged and the search yields no rows
FindConnectingTables(table_names, ok, rows) ==
    IF Len(table_names) < 2 THEN [raised |-> FALSE, rows |-> <<>>]
    ELSE [raised |-> FALSE, rows |-> IF ok THEN rows ELSE <<>>]

\* find (graph.py 324-366).  [raised, tables, secondary, seed]: whether find
\* raised, what it returned, whether the sphere and connector searches were
\* started and the table names they were given
Find(c) ==
    LET n_text == c.tables_descriptions + c.columns_descriptions
        table_embeddings == c.tables_descriptions > 0
        column_embeddings == c.columns_descriptions > 0
        \* main_tasks, and results in the order of main_tasks (lines 334-342)
        results == (IF table_embeddings THEN << c.tables >> ELSE <<>>)
                   \o (IF column_embeddings THEN << c.by_columns >> ELSE <<>>)
        gather_raises == \/ table_embeddings /\ ~c.tables_ok
                         \/ column_embeddings /\ ~c.columns_ok
        tables_des == IF table_embeddings THEN results[1] ELSE <<>>
        tables_by_columns_des ==
            IF table_embeddings /\ column_embeddings THEN results[2] ELSE <<>>
        found_table_names == [i \in DOMAIN tables_des |-> tables_des[i].name]
        sphere == FindTablesSphere(c.sphere_ok, c.by_sphere)
        route == FindConnectingTables(found_table_names, c.route_ok, c.by_route)
        secondary == found_table_names # <<>>
        tables_by_sphere == IF secondary THEN sphere.rows ELSE <<>>
        tables_by_route == IF secondary THEN route.rows ELSE <<>>
        none == [raised |-> FALSE, tables |-> <<>>, secondary |-> FALSE,
                 seed |-> <<>>]
    IN IF n_text = 0 THEN none
       ELSE IF ~c.embed_ok \/ gather_raises
       THEN [none EXCEPT !.raised = TRUE]
       ELSE IF secondary /\ (sphere.raised \/ route.raised)
       THEN [none EXCEPT !.raised = TRUE, !.secondary = TRUE,
                         !.seed = found_table_names]
       ELSE [raised |-> FALSE,
             tables |-> GetUniqueTables(tables_des \o tables_by_columns_des
                                        \o tables_by_route \o tables_by_sphere),
             secondary |-> secondary,
             seed |-> IF secondary THEN found_table_names ELSE <<>>]

\* Loader.load iterated to its end, with the replies of its collaborators:
\* connect is "ok", "db_error" (psycopg2.Error, pymysql.MySQLError) or
\* "exception" (any other exception); the flags say whether the extraction of
\* tables, of relationships and load_to_graph return
LoadCalls ==
    { [fn |-> "load", loader |-> l, connect |-> c, tables_ok |-> t,
       relationships_ok |-> r, graph_ok |-> g] :
         l \in {"postgresql", "mysql"}, c \in {"ok", "db_error", "exception"},
         t \in BOOLEAN, r \in BOOLEAN, g \in BOOLEAN }

Progress(message) == [success |-> TRUE, message |-> message]

\* the body of the try block of both loaders (postgres_loader.py 110-139,
\* mysql_loader.py 174-204): what is yielded before the first exception,
\* which kind of exception that is, and the calls of load_to_graph.
\* [yielded, exception, load_to_graph]
LoadBody(c, loaded) ==
    IF c.connect # "ok"
    THEN [yielded |-> <<>>, exception |-> c.connect, load_to_graph |-> 0]
    ELSE IF ~c.tables_ok
    THEN [yielded |-> << Progress("Extracting table information...") >>,
          exception |-> "exception", load_to_graph |-> 0]
    ELSE IF ~c.relationships_ok
    THEN [yielded |-> << Progress("Extracting table information..."),
                         Progress("Extracting relationship information...") >>,
          exception |-> "exception", load_to_graph |-> 0]
    ELSE IF ~c.graph_ok
    THEN [yielded |-> << Progress("Extracting table information..."),
                         Progress("Extracting relationship information..."),
                         Progress("Loading data into graph...") >>,
          exception |-> "exception", load_to_graph |-> 1]
    ELSE [yielded |-> << Progress("Extracting table information..."),
                         Progress("Extracting relationship information..."),
                         Progress("Loading data into graph..."),
                         Progress(loaded) >>,
          exception |-> "none", load_to_graph |-> 1]

\* PostgresLoader.load (postgres_loader.py 99-146): both handlers yield a
\* failure.  [raised, yielded, load_to_graph]
PostgresLoaderLoad(c) ==
    LET body == LoadBody(c, "PostgreSQL schema loaded successfully")
    IN [raised |-> FALSE,
        yielded |-> body.yielded
            \o (IF body.exception = "db_error"
                THEN << [success |-> FALSE,
                         message |-> "Failed to connect to PostgreSQL database"] >>
                ELSE IF body.exception = "exception"
                THEN << [success |-> FALSE,
                         message |-> "Failed to load PostgreSQL database schema"] >>
                ELSE <<>>),
        load_to_graph |-> body.load_to_graph]

\* MySQLLoader.load (mysql_loader.py 163-211): both handlers raise
\* MySQLConnectionError
MySQLLoaderLoad(c) ==
    LET body == LoadBody(c, "MySQL schema loaded successfully")
    IN [raised |-> body.exception # "none",
        yielded |-> body.yielded,
        load_to_graph |-> body.load_to_graph]

\* statements handed to auto_quote_identifiers.  Every atom is a whole token:
\* none holds a table name as a proper part and none is followed by a dot
QuoterStatements ==
    { <<"SELECT", " ", "*", " ", "FROM", " ", "my-table">>,
      <<"SELECT", " ", "*", " ", "FROM", " ", "users">>,
      <<"SELECT", " ", "*", " ", "FROM", " ", "unknown-table">>,
      <<"SELECT", " ", "*", " ", "FROM", " ", "users", ",", " ", "my-table">>,
      <<"DROP", " ", "TABLE", " ", "my-table">>,
      <<"select", " ", "*", " ", "from", " ", "my-table", " ", "JOIN", " ", "users">> }

QuoterCalls ==
    { [fn |-> "auto_quote_identifiers", sql_query |-> q, known_tables |-> k,
       quote_char |-> c] :
         q \in QuoterStatements, k \in KnownTableSets \cup { {"users"} },
         c \in {"<dq>", "<bq>"} }

\* index of the first occurrence of atom a in s, 0 when there is none
RECURSIVE FirstIndexOfAtom(_, _)
FirstIndexOfAtom(s, a) ==
    IF s = <<>> THEN 0
    ELSE IF Head(s) = a THEN 1
    ELSE LET r == FirstIndexOfAtom(Tail(s), a) IN IF r = 0 THEN 0 ELSE r + 1

\* a graph created by load for a prefix and a connection URL, then refreshed
ReloadCalls ==
    { [fn |-> "refresh_graph_schema", prefix |-> p, db_name |-> n, options |-> o] :
         p \in { <<"u">>, <<"a", "_", "b">> },
         n \in { <<"db">>, <<"my", "_", "db">> },
         o \in BOOLEAN }

\* the connection URL of a database name, with or without options
ConnectionUrl(c) ==
    << "postgresql://", "user@host", "/" >> \o c.db_name
    \o (IF c.options THEN << "?", "sslmode=require" >> ELSE <<>>)

\* index of the last occurrence of atom a in s, 0 when there is none
RECURSIVE LastIndexOf(_, _)
LastIndexOf(s, a) ==
    IF s = <<>> THEN 0
    ELSE IF s[Len(s)] = a THEN Len(s)
    ELSE LastIndexOf(SubSeq(s, 1, Len(s) - 1), a)

\* postgres_loader.py 116-118: connection_url.split('/')[-1], cut at '?'
DbNameOfUrl(connection_url) ==
    LET last == SubSeq(connection_url, LastIndexOf(connection_url, "/") + 1,
                       Len(connection_url))
        q == FirstIndexOfAtom(last, "?")
    IN IF q = 0 THEN last ELSE SubSeq(last, 1, q - 1)

\* postgres_loader.py 135, mysql_loader.py 200: the graph load writes
LoadedGraphName(prefix, connection_url) ==
    prefix \o << "_" >> \o DbNameOfUrl(connection_url)

\* postgres_loader.py 436-442, mysql_loader.py 477-483: '_'.join of all parts
\* of graph_id.split('_') but the last, graph_id itself without a '_'
RefreshPrefix(graph) ==
    LET k == LastIndexOf(graph, "_")
    IN IF k = 0 THEN graph ELSE SubSeq(graph, 1, k - 1)

\* BaseAgent.__init__ (agents/utils.py 14-18): the seeded buffer, one user and
\* one assistant message for each (question, answer) pair
RECURSIVE SeededMessages(_)
SeededMessages(pairs) ==
    IF pairs = <<>> THEN <<>>
    ELSE SeededMessages(SubSeq(pairs, 1, Len(pairs) - 1))
         \o << [role |-> "user", content |-> "question"],
               [role |-> "assistant", content |-> "answer"] >>

\* database_type arguments of get_analysis; "none" is None
DatabaseTypes == { "postgresql", "mysql", "none" }

\* analysis_agent.py 29-32: the system message of the dialect
DialectMessage(database_type) ==
    [role |-> "system",
     content |-> IF database_type # "none" THEN UpperAtom(database_type)
                 ELSE "UNKNOWN"]

\* one get_analysis call: its database_type, whether the completion call
\* returns, and the reply of the model
AnalysisCallOptions ==
    [database_type : DatabaseTypes, completion_ok : BOOLEAN,
     reply : { NoReply, [json |-> FALSE, verdict |-> NoVerdict] }]

\* an AnalysisAgent built on a chat history, then a sequence of get_analysis calls
AnalysisCalls ==
    { [fn |-> "get_analysis", queries_history |-> [i \in 1..m |-> i],
       result_history |-> r, calls |-> c] :
         m \in 1..3, r \in { NoResults, Results(2) },
         c \in UNION { [1..k -> AnalysisCallOptions] : k \in 1..MaxAnalysisCalls } }

GetAnalysisMessages_AlwaysInserts(buffer, c) ==
    LET with_system == << DialectMessage(c.database_type) >> \o buffer
        with_prompt == Append(with_system, [role |-> "user", content |-> "prompt"])
    IN IF ~c.completion_ok \/ GetAnalysisRaises(c.reply)
       THEN with_prompt
       ELSE Append(with_prompt, [role |-> "assistant", content |-> "sql_query"])

\* get_analysis (analysis_agent.py 14-62) on self.messages: the buffer when
\* the call returns or raises
GetAnalysisMessages(buffer, c) ==
    LET with_system ==
            IF buffer = <<>> \/ buffer[1].role # "system"
            THEN << DialectMessage(c.database_type) >> \o buffer
            ELSE buffer
        with_prompt == Append(with_system, [role |-> "user", content |-> "prompt"])
    IN IF ~c.completion_ok \/ GetAnalysisRaises(c.reply)
       THEN with_prompt
       ELSE Append(with_prompt, [role |-> "assistant", content |-> "sql_query"])

\* the buffer after the calls cs, made one after the other
RECURSIVE AnalysisAgentMessages(_, _)
AnalysisAgentMessages(buffer, cs) ==
    IF cs = <<>> THEN buffer
    ELSE GetAnalysisMessages(
             AnalysisAgentMessages(buffer, SubSeq(cs, 1, Len(cs) - 1)), cs[Len(cs)])

\* URLs given to load_database, with the replies of the loader's collaborators
LoadUrls ==
    { << "postgresql://", "h" >>, << "postgres://", "h" >>, << "mysql://", "h" >>,
      << "MYSQL://", "h" >>, << "sqlite://", "h" >>, << " ", "mysql://", "h" >>,
      << " " >>, <<>> }

LoadDatabaseCalls ==
    { [fn |-> "load_database", url |-> u, connect |-> c, tables_ok |-> t,
       relationships_ok |-> r, graph_ok |-> g] :
         u \in LoadUrls, c \in {"ok", "db_error", "exception"},
         t \in BOOLEAN, r \in BOOLEAN, g \in BOOLEAN }

\* events of the load_database stream
LoadStep(n, text) == [type |-> "reasoning_step", step |-> n, message |-> text]

LoadError(text) == [type |-> "error", message |-> text]

LoadFinalResult ==
    [type |-> "final_result", success |-> TRUE,
     message |-> "Database connected and schema loaded successfully"]

\* _step_detect_db_type (schema_loader.py 37-54): the loader of the URL's
\* scheme, "invalid" when it raises InvalidArgumentError
StepDetectDbType(url) ==
    IF StartsWith(url, << "postgres://" >>) \/ StartsWith(url, << "postgresql://" >>)
    THEN "postgresql"
    ELSE IF StartsWith(url, << "mysql://" >>) THEN "mysql"
    ELSE "invalid"

\* the items of a load the loop of schema_loader.py 64-73 turns into steps:
\* the successful items before the first failure
RECURSIVE SuccessfulPrefix(_)
SuccessfulPrefix(yielded) ==
    IF yielded = <<>> \/ ~Head(yielded).success THEN <<>>
    ELSE << Head(yielded) >> \o SuccessfulPrefix(Tail(yielded))

StepAttemptLoad_Uncaught(steps_counter, load) ==
    LET steps == SuccessfulPrefix(load.yielded)
        reported == [i \in DOMAIN steps |->
                        LoadStep(steps_counter + i, steps[i].message)]
    IN IF Len(steps) < Len(load.yielded)
       THEN Append(reported, LoadError("Failed to load database schema"))
       ELSE IF load.raised
       THEN reported
       ELSE IF steps # <<>>
       THEN Append(reported, LoadFinalResult)
       ELSE Append(reported, LoadError("Failed to load database schema"))

\* _step_attempt_load (schema_loader.py 57-90) on what the loader's load
\* yields and raises: the events it yields
StepAttemptLoad(steps_counter, load) ==
    LET steps == SuccessfulPrefix(load.yielded)
        reported == [i \in DOMAIN steps |->
                        LoadStep(steps_counter + i, steps[i].message)]
    IN IF Len(steps) < Len(load.yielded)
       THEN Append(reported, LoadError("Failed to load database schema"))
       ELSE IF load.raised
       THEN Append(reported, LoadError("Error connecting to database"))
       ELSE IF steps # <<>>
       THEN Append(reported, LoadFinalResult)
       ELSE Append(reported, LoadError("Failed to load database schema"))

\* load_database (schema_loader.py 98-141).  [raised, stream, progress,
\* load_calls]: whether the call raised before any stream existed, the events
\* of the stream, the items the loader produced and the calls of the
\* loader's load
LoadDatabase(c) ==
    LET loader == StepDetectDbType(c.url)
        load == IF loader = "mysql" THEN MySQLLoaderLoad(c) ELSE PostgresLoaderLoad(c)
        start == LoadStep(1, "Starting database connection")
    IN IF Strip(c.url) = <<>>
       THEN [raised |-> TRUE, stream |-> <<>>, progress |-> <<>>, load_calls |-> 0]
       ELSE IF loader = "invalid"
       THEN [raised |-> FALSE,
             stream |-> << start, LoadError("Invalid database URL format") >>,
             progress |-> <<>>, load_calls |-> 0]
       ELSE [raised |-> FALSE,
             stream |-> << start, LoadStep(2, "Detected database type: " \o loader) >>
                        \o StepAttemptLoad(2, load),
             progress |-> load.yielded, load_calls |-> 1]

\* delete_database calls: the configured GENERAL_PREFIX, the caller, the
\* graph id of the request and what graph.delete() does
DeleteCalls ==
    { [fn |-> "delete_database", prefix |-> p, user |-> u, graph |-> g,
       delete |-> o] :
         p \in PrefixConfigs, u \in { <<"u">>, <<"v">> },
         g \in { <<"d", "x">>, <<" ", "d", "x">>, <<"d", "x", " ">>, <<"x">>,
                 <<" ", "x">>, <<" ">>, <<>> },
         o \in { "ok", "ResponseError", "Exception" } }

\* delete_database (text2sql.py 884-905).  [raised, deleted]: the exception
\* it raises ("none" when it returns) and the graphs graph.delete() was
\* called on
DeleteDatabase(c) ==
    IF GraphNameRaises(c.graph)
    THEN [raised |-> "GraphNotFoundError", deleted |-> <<>>]
    ELSE LET namespaced == GraphName(c.prefix, c.user, c.graph)
         IN IF c.prefix # <<>> /\ StartsWith(c.graph, c.prefix)
            THEN [raised |-> "InvalidArgumentError", deleted |-> <<>>]
            ELSE [raised |-> CASE c.delete = "ok" -> "none"
                               [] c.delete = "ResponseError" -> "GraphNotFoundError"
                               [] OTHER -> "InternalError",
                  deleted |-> << namespaced >>]

\* user ids of two requests: provider ids and e-mail addresses, which may
\* hold a '_'
NamespaceUsers == { <<"a">>, <<"a", "_", "b">>, <<"u">> }

\* graph ids of two requests, each of which _graph_name accepts
NamespaceGraphs == { <<"c">>, <<"b", "_", "c">>, <<" ", "c">>, <<"d", "x">> }

\* two requests resolved by _graph_name under one configuration
NamespaceCalls ==
    { [fn |-> "_graph_name", prefix |-> p, first_user |-> u1, first_graph |-> g1,
       second_user |-> u2, second_graph |-> g2] :
         p \in PrefixConfigs, u1 \in NamespaceUsers, g1 \in NamespaceGraphs,
         u2 \in NamespaceUsers, g2 \in NamespaceGraphs }

PureCalls ==
    SchemaCalls \cup HistoryCalls \cup UniqueTablesCalls \cup FindCalls \cup LoadCalls
    \cup QuoterCalls \cup ReloadCalls \cup AnalysisCalls \cup LoadDatabaseCalls
    \cup DeleteCalls \cup NamespaceCalls

InitPure ==
    /\ generalPrefix = <<>>
    /\ PipeIdle
    /\ HealIdle
    /\ call \in PureCalls /\ called = FALSE /\ ret = <<>>

\* the function returns r
Return(r) ==
    /\ called = FALSE
    /\ called' = TRUE
    /\ ret' = r
    /\ UNCHANGED << call, pipeVars, healVars >>

\* is_schema_modifying_query of the two loaders on the same statement
ApplyIsSchemaModifyingQuery ==
    /\ call.fn = "is_schema_modifying_query"
    /\ Return([postgres |-> IsSchemaModifyingQuery(call.sql),
               mysql |-> MySQLIsSchemaModifyingQuery(call.sql)])

\* the truncation of query_database and the pairing the agents then make
ApplyTruncateHistory ==
    /\ call.fn = "truncate_history"
    /\ LET t == TruncateHistory(call.queries_history, call.result_history)
       IN Return([queries_history |-> t.queries_history,
                  result_history |-> t.result_history,
                  messages |-> BaseAgentMessages(t.queries_history, t.result_history)])

\* _get_unique_tables on a list, and on its own output
ApplyGetUniqueTables ==
    /\ call.fn = "_get_unique_tables"
    /\ Return([once |-> GetUniqueTables(call.tables_list),
               twice |-> GetUniqueTables(GetUniqueTables(call.tables_list))])

\* find on the replies of its collaborators
ApplyFind ==
    /\ call.fn = "find"
    /\ Return(Find(call))

\* load of the loader the call names, iterated to its end
ApplyLoad ==
    /\ call.fn = "load"
    /\ Return(IF call.loader = "mysql" THEN MySQLLoaderLoad(call)
              ELSE PostgresLoaderLoad(call))

\* auto_quote_identifiers on a statement and the tables of a schema
ApplyAutoQuoteIdentifiers ==
    /\ call.fn = "auto_quote_identifiers"
    /\ Return(AutoQuoteIdentifiers(call.sql_query, call.known_tables,
                                   call.quote_char))

\* load creates a graph; refresh_graph_schema names the graph it reloads
ApplyRefreshGraphSchema ==
    /\ call.fn = "refresh_graph_schema"
    /\ LET created == LoadedGraphName(call.prefix, ConnectionUrl(call))
       IN Return([graph_id |-> created,
                  reloaded |-> LoadedGraphName(RefreshPrefix(created),
                                               ConnectionUrl(call))])

\* an AnalysisAgent built on a chat history, then its get_analysis calls
ApplyGetAnalysis ==
    /\ call.fn = "get_analysis"
    /\ Return([messages |->
                  AnalysisAgentMessages(
                      SeededMessages(BaseAgentMessages(call.queries_history,
                                                       call.result_history)),
                      call.calls)])

\* load_database on a URL, its stream read to the end
ApplyLoadDatabase ==
    /\ call.fn = "load_database"
    /\ Return(LoadDatabase(call))

\* delete_database for a user and a graph id
ApplyDeleteDatabase ==
    /\ call.fn = "delete_database"
    /\ Return(DeleteDatabase(call))

\* _graph_name for two requests
ApplyGraphName ==
    /\ call.fn = "_graph_name"
    /\ Return([first |-> GraphName(call.prefix, call.first_user, call.first_graph),
               second |-> GraphName(call.prefix, call.second_user, call.second_graph)])

NextPure ==
    \/ ApplyGraphName
    \/ ApplyDeleteDatabase
    \/ ApplyLoadDatabase
    \/ ApplyGetAnalysis
    \/ ApplyFind
    \/ ApplyRefreshGraphSchema
    \/ ApplyAutoQuoteIdentifiers
    \/ ApplyLoad
    \/ ApplyIsSchemaModifyingQuery
    \/ ApplyGetUniqueTables
    \/ ApplyTruncateHistory

SpecPure == InitPure /\ [][NextPure]_vars

\* =========================================================================
\* Properties
\* =========================================================================
EventTypes == { events[i].type : i \in DOMAIN events }

LastEvent == events[Len(events)]

\* the reply as execute_destructive_operation reads it
NormalisedReply == Upper(Strip(confirm_reply))

\* the keywords the destructive gate is specified for
GateKeywords ==
    { <<"INSERT">>, <<"UPDATE">>, <<"DELETE">>, <<"DROP">>,
      <<"CREATE">>, <<"ALTER">>, <<"TRUNCATE">> }

C2_DestructiveHaltsForConfirmation ==
    ( /\ op = "query" /\ answer_an.is_sql_translatable /\ pc # "q_gate"
      /\ ~IsGeneralGraph(generalPrefix, graph_id)
      /\ Split(Strip(answer_an.sql_query)) # <<>>
      /\ Split(Strip(answer_an.sql_query))[1] \in GateKeywords )
    => /\ stream = "ended"
       /\ LastEvent = [type |-> "destructive_confirmation",
                       sql_query |-> answer_an.sql_query,
                       operation_type |-> Split(Strip(answer_an.sql_query))[1],
                       final_response |-> FALSE]
       /\ executed = <<>>
       /\ refreshCalls = 0
       /\ EventTypes \cap {"query_result", "schema_refresh", "ai_response"} = {}

C2_Witness ==
    /\ op = "query" /\ stream = "ended" /\ events # <<>>
    /\ LastEvent.type = "destructive_confirmation"
    /\ LastEvent.operation_type = <<"DROP">>
    /\ executed = <<>>

\* C3: on a graph whose identifier starts with the configured demo prefix no
\* destructive statement is ever handed to execute_sql_query, by query_database
\* or by execute_destructive_operation, whatever the reply.
C3_DemoGraphNeverExecutesDestructive ==
    (op # "idle" /\ IsGeneralGraph(generalPrefix, graph_id)) =>
        \A i \in DOMAIN executed : ~IsDestructive(executed[i].sql)

\* C4: every run of query_database that does not halt for destructive
\* confirmation ends with an event carrying final_response = TRUE, whatever the
\* collaborators did; a run that halts for confirmation ends without any such
\* event.
C4_RunEndsWithFinalResponse ==
    (op = "query" /\ pc = "done") =>
        IF "destructive_confirmation" \in EventTypes
        THEN \A i \in DOMAIN events : events[i].final_response = FALSE
        ELSE /\ stream = "ended"
             /\ events # <<>>
             /\ LastEvent.final_response = TRUE

PipelineEventKinds ==
    { "reasoning_step", "sql_query", "destructive_confirmation", "query_result",
      "schema_refresh", "healing_attempt", "healing_success", "ai_response",
      "followup_questions", "error" }

\* C5 (as stated): every event of both streams has a type among the
\* PipelineEvent kinds, and every event outside the confirmation branch (the
\* destructive_confirmation event and the stream of
\* execute_destructive_operation) carries a boolean final_response field.
C5_EveryEventIsAPipelineEvent ==
    \A i \in DOMAIN events :
        /\ events[i].type \in PipelineEventKinds
        /\ (op = "query" /\ events[i].type # "destructive_confirmation")
              => /\ "final_response" \in DOMAIN events[i]
                 /\ events[i].final_response \in BOOLEAN

\* C5 (amended): every event of query_database has a type among the PipelineEvent
\* kinds and carries a boolean final_response field, the destructive_confirmation
\* event included; every event of execute_destructive_operation has a type among
\* those kinds or the type operation_cancelled, and carries no final_response
\* field.
C5_EventEnvelope ==
    \A i \in DOMAIN events :
        IF op = "query"
        THEN /\ events[i].type \in PipelineEventKinds
             /\ "final_response" \in DOMAIN events[i]
             /\ events[i].final_response \in BOOLEAN
        ELSE /\ events[i].type \in PipelineEventKinds \cup {"operation_cancelled"}
             /\ "final_response" \notin DOMAIN events[i]

C5_Witness ==
    /\ op = "confirm" /\ stream = "ended"
    /\ {"reasoning_step", "query_result", "schema_refresh", "ai_response"}
          \subseteq EventTypes

\* C6: when relevancy resolves to a status other than On-topic the run ends, in
\* every interleaving with the retrieval task (running, completed, failed), with
\* exactly one followup_questions event, which is the last event and carries
\* final_response = TRUE, and the retrieval task is not left running.
C6_OffTopicEndsWithFollowUp ==
    ( /\ op = "query" /\ pc = "done"
      /\ relevancy_task = "done"
      /\ answer_rel \in {"Off-topic", "Inappropriate"} )
    => /\ stream = "ended"
       /\ find_task # "running"
       /\ events # <<>>
       /\ LastEvent.type = "followup_questions"
       /\ LastEvent.final_response = TRUE
       /\ Cardinality({ i \in DOMAIN events :
                            events[i].type = "followup_questions" }) = 1

\* C7 (as stated): once a run has ended after its terminal event (success,
\* follow-up or error) the three background tasks have been scheduled.
C7_TerminalEventSchedulesTasks ==
    ( /\ op = "query" /\ stream = "ended" /\ events # <<>>
      /\ LastEvent.final_response = TRUE )
    => \A t \in BackgroundTasks : background[t] # "none"

\* terminal events of runs that end before the analysis stage
EarlyTerminalEvents ==
    { OffTopicEvent, ErrorEvent("Unable to determine database type") }

C7_ScheduledExactlyAfterAnalysis ==
    ( /\ op = "query" /\ stream = "ended" /\ events # <<>>
      /\ LastEvent.final_response = TRUE )
    => IF LastEvent \in EarlyTerminalEvents
       THEN /\ \A t \in BackgroundTasks : background[t] = "none"
            /\ saved = <<>>
       ELSE /\ \A t \in BackgroundTasks : background[t] # "none"
            /\ Len(saved) = 1

C7_TaskOutcomeIsSilent ==
    (\E t \in BackgroundTasks :
        background[t] = "scheduled" /\ background'[t] \in {"done", "failed"})
    => /\ events' = events
       /\ stream' = stream
       /\ stream = "ended"

\* C7 (amended): after the terminal event of a run that reached the analysis
\* stage (ai_response, the follow-up of a non-translatable verdict, or an error of
\* the execution stage) the three background tasks are scheduled, and the stream
\* has ended before any of them completes; the completion or failure of a task
\* emits no event and leaves the events already sent unchanged. After the
\* off-topic follow-up and the "Unable to determine database type" error no
\* background task is scheduled.
C7_BackgroundTasksAfterAnalysedRuns ==
    /\ [](C7_ScheduledExactlyAfterAnalysis)
    /\ [][C7_TaskOutcomeIsSilent]_vars

C7_Witness ==
    /\ op = "query" /\ stream = "ended"
    /\ LastEvent = AiResponseEvent
    /\ background["save_query_memory"] = "failed"
    /\ background["add_new_memory"] = "scheduled"
    /\ background["clean_memory"] = "done"

C8_SessionCounts ==
    /\ llmCalls <= max_healing_attempts
    /\ Len(execLog) <= llmCalls
    /\ \A i \in DOMAIN execLog : i < Len(execLog) => ~execLog[i].ok
    /\ hpc = "returned" =>
          /\ healResult.attempts <= max_healing_attempts
          /\ llmCalls = healResult.attempts
          /\ Len(execLog) = healResult.attempts
          /\ healResult.success =>
                /\ execLog # <<>>
                /\ execLog[Len(execLog)].ok
          /\ ~healResult.success => \A i \in DOMAIN execLog : ~execLog[i].ok

\* C8: every session of heal_and_execute (any initial statement, valid for the
\* static validator or not; any max_healing_attempts >= 0; any replies and
\* execution outcomes) comes to an end, and when it returns it reports
\* attempts <= max_healing_attempts after exactly that many model calls and
\* exactly that many executions, all of them failed except the last one of a
\* successful session.
C8_HealingSessionBounded ==
    /\ [](C8_SessionCounts)
    /\ (hpc = "loop") ~> (hpc \in {"returned", "raised"})

C8_Witness ==
    /\ hpc = "returned" /\ healResult.success
    /\ healResult.attempts = 2
    /\ ~ValidateSqlSyntax(initial_sql).is_valid
    /\ Len(execLog) = 2 /\ llmCalls = 2

\* C9: when every healing attempt has failed and the attempts are used up,
\* heal_and_execute reports the error of the initial failed execution, not the
\* error of a healing attempt.
C9_ExhaustionReportsInitialError ==
    (hpc = "returned" /\ ~healResult.success) =>
        healResult.final_error = initial_error

\* C10: in a run of query_database where the first execution of a
\* non-destructive statement failed and the database accepts the healed
\* statement, the stream carries healing_attempt, then healing_success, then
\* ai_response as its last event, and no error event.
C10_HealedRunEndsWithAiResponse ==
    ( /\ op = "query" /\ stream \in {"ended", "raised"}
      /\ executed # <<>> /\ ~executed[1].ok
      /\ ~IsDestructive(executed[1].sql)
      /\ healed_exec_ok )
    => /\ \E i, j \in DOMAIN events :
             /\ i < j /\ j < Len(events)
             /\ events[i].type = "healing_attempt"
             /\ events[j].type = "healing_success"
       /\ LastEvent.type = "ai_response"
       /\ "error" \notin EventTypes

\* C11: in a run of query_database whose first execution succeeded the verdict's
\* sql_query is still the executed statement; in a run whose first execution
\* failed and whose healed statement the database accepts, the verdict's
\* sql_query and the statement handed to the memory tasks are the statement that
\* executed successfully, not the failed original.
C11_VerdictCarriesHealedStatement ==
    ( /\ op = "query" /\ stream = "ended" /\ pc = "done"
      /\ executed # <<>> )
    => /\ executed[1].ok => answer_an.sql_query = executed[1].sql
       /\ (~executed[1].ok /\ healed_exec_ok) =>
             /\ saved # <<>>
             /\ \E i \in DOMAIN executed :
                   /\ executed[i].ok
                   /\ executed[i].sql = saved[Len(saved)].sql
                   /\ executed[i].sql = answer_an.sql_query

\* C12: when the statement was schema-modifying, the graph store deletes the
\* graph and the load of the live database succeeds, refresh_graph_schema
\* reports success: the schema graph is present again and the stream carries a
\* schema_refresh event with refresh_status "success".
C12_RefreshSucceedsWhenLoadSucceeds ==
    ( /\ op # "idle" /\ refreshCalls > 0
      /\ refresh_env.delete_ok /\ refresh_env.load_ok )
    => /\ schema_graph = "present"
       /\ \E i \in DOMAIN events :
             /\ events[i].type = "schema_refresh"
             /\ events[i].refresh_status = "success"

FailedRefreshes ==
    { i \in DOMAIN events :
        events[i].type = "schema_refresh" /\ events[i].refresh_status = "failed" }

\* C13 (as stated): a run with a failed refresh carries no error event and ends
\* with ai_response.
C13_FailedRefreshEndsWithAiResponse ==
    (op # "idle" /\ pc = "done" /\ FailedRefreshes # {}) =>
        /\ stream = "ended"
        /\ "error" \notin EventTypes
        /\ LastEvent.type = "ai_response"

\* C13 (amended): a failed refresh is reported as a schema_refresh event with
\* refresh_status "failed"; the executed statement stays executed, the events
\* sent before it (the query_result among them) stay in the stream, no error
\* event is sent for the refresh, the next event is the reasoning step of
\* response formatting, and the run ends with ai_response when formatting
\* succeeds; only a failure of formatting ends it with an error event instead.
C13_FailedRefreshIsAWarning ==
    \A i \in FailedRefreshes :
        /\ executed # <<>> /\ executed[Len(executed)].ok
        /\ op = "confirm" => \E j \in 1..(i - 1) : events[j].type = "query_result"
        /\ \A j \in 1..i : events[j].type # "error"
        /\ Len(events) > i /\ events[i + 1].type = "reasoning_step"
        /\ \A j \in DOMAIN events :
              events[j].type = "error" => (j = Len(events) /\ j = i + 2)
        /\ pc = "done" =>
              /\ stream = "ended"
              /\ Len(events) = i + 2
              /\ LastEvent.type \in {"ai_response", "error"}
              /\ LastEvent.type = "error" <=>
                    \/ (op = "query" /\ execution_error \in ExcTexts)
                    \/ (op = "confirm" /\ saved # <<>> /\ ~saved[Len(saved)].success)

C13_Witness ==
    /\ op = "query" /\ stream = "ended"
    /\ FailedRefreshes # {}
    /\ "query_result" \in EventTypes
    /\ LastEvent = AiResponseEvent
    /\ schema_graph = "deleted"

\* the first whitespace-delimited token of a statement, upper-cased
FirstToken(sql) == IF Split(sql) = <<>> THEN <<>> ELSE Upper(Split(sql)[1])

SchemaVerbs ==
    { <<"CREATE">>, <<"ALTER">>, <<"DROP">>, <<"RENAME">>, <<"TRUNCATE">> }

\* C14: is_schema_modifying_query returns (true, verb) exactly when the first
\* whitespace-delimited token of the statement, upper-cased, is CREATE, ALTER,
\* DROP, RENAME or TRUNCATE, whether or not a specific pattern matches, and
\* (false, "") for every other statement, the blank and empty ones included; the
\* PostgreSQL and the MySQL loader return the same on every statement.
C14_SchemaModifyingByFirstToken ==
    (called /\ call.fn = "is_schema_modifying_query") =>
        /\ ret.postgres = ret.mysql
        /\ ret.postgres =
              IF FirstToken(call.sql) \in SchemaVerbs
              THEN [modifying |-> TRUE, operation |-> FirstToken(call.sql)]
              ELSE [modifying |-> FALSE, operation |-> <<>>]

C14_Witness ==
    /\ called /\ call.fn = "is_schema_modifying_query"
    /\ call.sql = <<"TRUNCATE", " ", "users">>
    /\ ~(\E pattern \in MYSQL_SCHEMA_PATTERNS :
            MatchesPattern(pattern, Upper(Strip(call.sql))))
    /\ ret.mysql = [modifying |-> TRUE, operation |-> <<"TRUNCATE">>]

TruncationApplied == called /\ call.fn = "truncate_history"

\* every earlier question of the request has its answer
AnswersAligned ==
    /\ ~call.result_history.is_none
    /\ Len(call.result_history.items) = Len(call.queries_history) - 1

\* C19 (as stated): for every history of more than SHORT_MEMORY_LENGTH questions
\* the truncated question list has SHORT_MEMORY_LENGTH entries and the answer
\* list SHORT_MEMORY_LENGTH - 1, the most recent ones; a shorter history is
\* passed on unchanged.
C19_TruncationKeepsLengths ==
    TruncationApplied =>
        IF Len(call.queries_history) > SHORT_MEMORY_LENGTH
        THEN /\ Len(ret.queries_history) = SHORT_MEMORY_LENGTH
             /\ ~ret.result_history.is_none
             /\ Len(ret.result_history.items) = SHORT_MEMORY_LENGTH - 1
        ELSE /\ ret.queries_history = call.queries_history
             /\ ret.result_history = call.result_history

\* C19 (amended): for every request with more than SHORT_MEMORY_LENGTH questions
\* the truncated question list is the SHORT_MEMORY_LENGTH most recent questions;
\* a missing or empty answer list is passed on as it is and any other answer
\* list keeps its most recent entries, at most SHORT_MEMORY_LENGTH - 1; when the
\* answer list had one entry fewer than the question list it has exactly
\* SHORT_MEMORY_LENGTH - 1 entries afterwards and every retained answer is
\* paired with the question it answered. A request of at most
\* SHORT_MEMORY_LENGTH questions is passed on unchanged.
C19_TruncationKeepsAlignedHistories ==
    TruncationApplied =>
        LET q == call.queries_history
            r == call.result_history
        IN IF Len(q) > SHORT_MEMORY_LENGTH
           THEN /\ Len(ret.queries_history) = SHORT_MEMORY_LENGTH
                /\ \A i \in 1..SHORT_MEMORY_LENGTH :
                      ret.queries_history[i] = q[Len(q) - SHORT_MEMORY_LENGTH + i]
                /\ (r.is_none \/ r.items = <<>>) => ret.result_history = r
                /\ ~r.is_none =>
                      LET kept == ret.result_history.items
                      IN /\ Len(kept) <= SHORT_MEMORY_LENGTH - 1
                         /\ Len(kept) <= Len(r.items)
                         /\ (Len(r.items) >= SHORT_MEMORY_LENGTH - 1)
                               => Len(kept) = SHORT_MEMORY_LENGTH - 1
                         /\ \A i \in DOMAIN kept :
                               kept[i] = r.items[Len(r.items) - Len(kept) + i]
                /\ AnswersAligned =>
                      /\ Len(ret.result_history.items) = SHORT_MEMORY_LENGTH - 1
                      /\ Len(ret.messages) = SHORT_MEMORY_LENGTH - 1
                      /\ \A i \in DOMAIN ret.messages :
                            ret.messages[i][1] = ret.messages[i][2]
           ELSE /\ ret.queries_history = q
                /\ ret.result_history = r

C19_Witness ==
    /\ TruncationApplied /\ AnswersAligned
    /\ Len(call.queries_history) = SHORT_MEMORY_LENGTH + 2
    /\ ret.queries_history = <<3, 4, 5, 6, 7>>
    /\ ret.result_history.items = <<3, 4, 5, 6>>

SeqRange(s) == { s[i] : i \in DOMAIN s }

\* the index of the first descriptor named n in list l
FirstIndexOf(l, n) == CHOOSE i \in DOMAIN l : l[i].name = n /\ \A j \in 1..(i - 1) : l[j].name # n

\* C20: _get_unique_tables keeps one descriptor per table name, the first one of
\* the input with its description, never a later duplicate's, and applying it to
\* its own output gives the same set of descriptors as applying it once (on
\* lists whose rows all convert).
C20_UniqueTablesFirstWinsIdempotent ==
    (called /\ call.fn = "_get_unique_tables"
       /\ \A i \in DOMAIN call.tables_list : ~ConversionRaises(call.tables_list[i])) =>
        /\ \A i, j \in DOMAIN ret.once :
              ret.once[i].name = ret.once[j].name => i = j
        /\ { ret.once[i].name : i \in DOMAIN ret.once }
              = { call.tables_list[i].name : i \in DOMAIN call.tables_list }
        /\ \A i \in DOMAIN ret.once :
              ret.once[i].description =
                 call.tables_list[FirstIndexOf(call.tables_list,
                                               ret.once[i].name)].description
        /\ SeqRange(ret.twice) = SeqRange(ret.once)

\* C16: raw exception text never reaches the user.  twin_events is the
\* stream of the run that differs from this one only in what the exceptions
\* of SQL execution, healing and schema refresh say; the two streams are
\* the same in every state.
C16_EventsIndependentOfExceptionText == twin_events = events

\* an execution failed with one of the exception texts and the run ended
C16_Witness ==
    /\ op # "idle" /\ pc = "done" /\ events # <<>>
    /\ \E i \in DOMAIN executed : executed[i].ok = FALSE
    /\ \E i \in DOMAIN events : events[i].type = "error"

\* C17: a reply of the relevancy or analysis model that is not valid JSON does
\* not crash the pipeline: parse_response yields the fallback verdict
\* (is_sql_translatable false, confidence 0, the raw text kept) and the run
\* that received such a reply ends its stream with a terminal event.
C17_InvalidJsonReplyReachesTerminalEvent ==
    /\ \A reply \in AnalysisReplies :
          ~reply.json => /\ ParseResponse(reply).is_sql_translatable = FALSE
                         /\ ParseResponse(reply).confidence = 0
                         /\ ParseResponse(reply).error = "raw response"
    /\ ( /\ op = "query" /\ pc = "done"
         /\ \/ relevancy_task = "done" /\ answer_rel = "nostatus"
            \/ analysis_reply # NoReply /\ ~analysis_reply.json )
       => /\ stream = "ended"
          /\ events # <<>>
          /\ LastEvent.final_response = TRUE

\* C18: every verdict get_analysis hands to the pipeline, whatever the model
\* replied, has an empty sql_query when is_sql_translatable is false and a
\* non-empty one when it is true.
C18_VerdictTranslatableIffSqlQuery ==
    ( /\ op = "query" /\ analysis_reply # NoReply
      /\ ~GetAnalysisRaises(analysis_reply) )
    => /\ answer_an.is_sql_translatable <=> answer_an.sql_query # <<>>
       /\ GetAnalysis(analysis_reply).is_sql_translatable
             <=> GetAnalysis(analysis_reply).sql_query # <<>>

\* messages of the error events the two endpoints yield
SanitizedMessages ==
    { "Unable to determine database type",
      "Destructive operation not allowed on demo graphs",
      "Error executing SQL query", "Error executing query" }

ErrorEvents == { i \in DOMAIN events : events[i].type = "error" }

\* C15: a pipeline run or confirmed execution that ended in failure, whichever
\* step failed, has emitted exactly one error event, whose message is one of
\* the fixed sanitized texts.
C15_TerminalFailureEmitsOneSanitizedError ==
    ( /\ op \in {"query", "confirm"} /\ pc = "done"
      /\ stream = "raised" \/ ErrorEvents # {} )
    => /\ Cardinality(ErrorEvents) = 1
       /\ \A i \in ErrorEvents : events[i].message \in SanitizedMessages

\* names of the rows of a search result
TableNames(rows) == { rows[i].name : i \in DOMAIN rows }

\* the searches of a find call that ran, with the rows each returned
SearchesRun(c) ==
    LET vectors == (IF c.tables_descriptions > 0 THEN { c.tables } ELSE {})
                   \cup (IF c.columns_descriptions > 0 THEN { c.by_columns } ELSE {})
        secondary == c.tables_descriptions > 0 /\ c.tables # <<>>
    IN vectors
       \cup (IF secondary /\ c.sphere_ok THEN { c.by_sphere } ELSE {})
       \cup (IF secondary /\ c.route_ok /\ Len(c.tables) >= 2
             THEN { c.by_route } ELSE {})

\* C21: find returns the deduplicated concatenation of the four searches:
\* every table returned by a search that ran appears exactly once in the
\* output, also when only table stubs or only column stubs were written.
C21_FindReturnsEveryTableOnce ==
    (called /\ call.fn = "find" /\ ~ret.raised)
    => /\ \A i, j \in DOMAIN ret.tables :
             ret.tables[i].name = ret.tables[j].name => i = j
       /\ TableNames(ret.tables)
             = UNION { TableNames(rows) : rows \in SearchesRun(call) }

\* the call in which the sphere search and the connector search that failed
\* found nothing instead
WithEmptyFailures(c) ==
    [c EXCEPT !.by_sphere = IF c.sphere_ok THEN @ ELSE <<>>,
              !.by_route = IF c.route_ok THEN @ ELSE <<>>,
              !.sphere_ok = TRUE, !.route_ok = TRUE]

\* C22: a failing sphere or connector search counts as an empty list and
\* find still returns the tables of the other searches; a failing embedding
\* call or vector search that ran makes find raise.
C22_SecondarySearchFailuresDegrade ==
    (called /\ call.fn = "find")
    => LET text == call.tables_descriptions + call.columns_descriptions > 0
           vector_failed ==
               \/ ~call.embed_ok
               \/ call.tables_descriptions > 0 /\ ~call.tables_ok
               \/ call.columns_descriptions > 0 /\ ~call.columns_ok
       IN /\ ret.raised <=> (text /\ vector_failed)
          /\ ~ret.raised =>
                /\ ret.tables = Find(WithEmptyFailures(call)).tables
                /\ call.tables_descriptions > 0
                      => TableNames(call.tables) \subseteq TableNames(ret.tables)

\* the table search found tables, the sphere search failed, find returned
C22_Witness ==
    /\ called /\ call.fn = "find" /\ ~ret.raised
    /\ call.tables_descriptions > 0 /\ Len(call.tables) = 2
    /\ ~call.sphere_ok /\ ~call.route_ok
    /\ call.by_sphere # <<>> /\ call.by_route # <<>>
    /\ ret.tables # <<>>

\* outcomes of a load that report failure
FailureOutcomes(yielded) == { i \in DOMAIN yielded : yielded[i].success = FALSE }

\* C23: when the connection to the source database fails, load of either
\* loader does not raise, reports one failure outcome and writes nothing to
\* the schema graph; when everything succeeds, load_to_graph is called
\* exactly once and the outcome is a success.
C23_LoadReportsConnectionFailure ==
    (called /\ call.fn = "load")
    => /\ call.connect # "ok"
             => /\ ~ret.raised
                /\ Cardinality(FailureOutcomes(ret.yielded)) = 1
                /\ ret.yielded[Len(ret.yielded)].success = FALSE
                /\ ret.load_to_graph = 0
       /\ ( call.connect = "ok" /\ call.tables_ok /\ call.relationships_ok
            /\ call.graph_ok )
             => /\ ~ret.raised
                /\ ret.load_to_graph = 1
                /\ ret.yielded[Len(ret.yielded)].success = TRUE

\* the known tables that occur unquoted in a statement and need quoting
TablesToQuote(query, known_tables) ==
    { t \in known_tables :
        /\ NeedsQuoting(t)
        /\ \E i \in DOMAIN query : query[i] = t }

\* C24: auto_quote_identifiers changes a query only by quoting the tables
\* that occur in it, are known and need quoting: without such a table the
\* query comes back unchanged with modified false; with one, modified is
\* true and no unquoted occurrence of such a table remains.
C24_AutoQuoteQuotesKnownTables ==
    (called /\ call.fn = "auto_quote_identifiers")
    => LET such == TablesToQuote(call.sql_query, call.known_tables)
       IN IF such = {}
          THEN ret.query = call.sql_query /\ ret.modified = FALSE
          ELSE /\ ret.modified = TRUE
               /\ \A i \in DOMAIN ret.query : ret.query[i] \notin such
               /\ Len(ret.query) = Len(call.sql_query)
               /\ \A i \in DOMAIN ret.query :
                     call.sql_query[i] \notin such
                        => ret.query[i] = call.sql_query[i]

\* positions of a pipeline run at which the retrieval result is being used
RetrievalUsed ==
    /\ op = "query"
    /\ \/ pc \in {"q_await_find", "q_await_mem", "q_analysis"}
       \/ "sql_query" \in EventTypes

\* C25: in every interleaving of the relevancy task and the retrieval task,
\* the retrieval result is awaited and handed to the analysis only once the
\* relevancy answer has been obtained and is On-topic, and no sql_query event
\* is emitted before that.
C25_RelevancyConsultedBeforeRetrieval ==
    RetrievalUsed => relevancy_task = "done" /\ answer_rel = "On-topic"

\* retrieval has finished first: the pipeline still waits for relevancy
C25_Witness ==
    /\ op = "query" /\ pc = "q_await_rel"
    /\ find_task = "done" /\ relevancy_task = "running"
    /\ ~RetrievalUsed

\* C26: the confirmation call executes a statement only if an earlier pipeline
\* run on the same graph asked for the confirmation of that statement.
C26_ConfirmExecutesOnlyAwaitedStatement ==
    op = "confirm"
    => \A i \in DOMAIN executed : << graph_id, executed[i].sql >> \in awaiting

\* C27: every statement the loader classifies as schema-modifying is also
\* destructive for the confirmation gate, so that query_database neither
\* executes a schema-modifying statement nor refreshes the schema graph.
C27_SchemaModifyingIsDestructive ==
    op = "query"
    => /\ \A i \in DOMAIN executed :
             LoaderIsSchemaModifyingQuery(DatabaseType(db_url),
                                          executed[i].sql).modifying
                => IsDestructive(executed[i].sql)
       /\ \A i \in DOMAIN executed :
             ~LoaderIsSchemaModifyingQuery(DatabaseType(db_url),
                                           executed[i].sql).modifying
       /\ "schema_refresh" \notin EventTypes

\* C28: the schema graph is missing only while a refresh runs: once
\* refresh_graph_schema has returned, with success or with failure, a schema
\* graph for the connection exists again.
C28_GraphExistsAfterRefresh ==
    "schema_refresh" \in EventTypes => schema_graph = "present"

\* C29: a refresh reloads into the graph it deleted: for a graph named
\* prefix + "_" + database name by load, the prefix the refresh derives from
\* the name, rejoined with the database name of the connection URL, is that
\* name again, also when prefix or database name contain underscores.
C29_RefreshReloadsIntoTheSameGraph ==
    (called /\ call.fn = "refresh_graph_schema")
    => /\ ret.graph_id = call.prefix \o << "_" >> \o call.db_name
       /\ ret.reloaded = ret.graph_id

\* C30: when the stream of a pipeline run ends, on whichever path, every
\* task created for the run other than the three memory tasks scheduled at
\* its end, the memory-tool creation task included, has been awaited or
\* cancelled and awaited.
C30_NoTaskOrphaned ==
    (op = "query" /\ stream = "ended")
    => /\ find_task # "none" => "find_task" \in awaited
       /\ relevancy_task # "none" => "relevancy_task" \in awaited
       /\ memory_tool_task # "none" => "memory_tool_task" \in awaited

\* positions of the events of the stream that carry final_response = true
FinalEvents == { i \in DOMAIN events : events[i].final_response = TRUE }

\* C31: in every query_database stream at most one event carries
\* final_response = true, and it is the last event of the stream.
C31_OneFinalResponseAndItIsLast ==
    op = "query"
    => /\ Cardinality(FinalEvents) <= 1
       /\ \A i \in FinalEvents : i = Len(events)

\* a run that executed its statement and answered: several events, the last
\* one final
C31_Witness ==
    /\ op = "query" /\ pc = "done" /\ stream = "ended"
    /\ Len(events) >= 4
    /\ FinalEvents = { Len(events) }
    /\ LastEvent.type = "ai_response"

\* C32: the success flag saved to query memory by a pipeline run is true
\* only if a statement of the run was executed successfully; a run in which
\* nothing executed or the execution failed is saved with success false.
C32_SavedSuccessOnlyAfterExecution ==
    op = "query"
    => \A i \in DOMAIN saved :
          saved[i].success = TRUE => \E j \in DOMAIN executed : executed[j].ok = TRUE

\* the last event of a stream that ended without reaching the memory section:
\* off-topic, no loader, confirmation halt
EndsBeforeMemory ==
    \/ LastEvent \in EarlyTerminalEvents
    \/ LastEvent.type = "destructive_confirmation"

\* C33: conversation memory is written only for on-topic queries: a run
\* that finished on the off-topic path, the no-loader path or the confirmation
\* halt scheduled none of the three memory tasks and saved nothing; a run
\* that finished on any other path scheduled each of them, with one save.
C33_MemoryWrittenOnlyForOnTopicRuns ==
    (op = "query" /\ pc = "done" /\ events # <<>>)
    => IF EndsBeforeMemory
       THEN /\ \A t \in BackgroundTasks : background[t] = "none"
            /\ saved = <<>>
       ELSE /\ \A t \in BackgroundTasks : background[t] # "none"
            /\ Len(saved) = 1

\* the initial prompt of the running session
InitialPrompt ==
    [role |-> "user", kind |-> "prompt", sql |-> initial_sql, error |-> initial_error,
     syntax_errors |-> ValidateSqlSyntax(initial_sql).errors,
     warnings |-> ValidateSqlSyntax(initial_sql).warnings]

\* C34: healing attempts share one transcript that starts anew with every
\* session: whenever the loop is about to make the model call of attempt
\* k = attempt + 1, the transcript is the initial prompt of this session
\* followed, for each of the k - 1 earlier attempts in order, by that attempt's
\* reply and then a feedback message carrying the statement that attempt
\* executed and the error of that execution.
C34_TranscriptOfAttempt ==
    hpc = "loop" =>
        /\ Len(messages) = 1 + 2 * attempt
        /\ Len(execLog) = attempt
        /\ messages[1] = InitialPrompt
        /\ \A i \in 1..attempt :
              /\ messages[2 * i].role = "assistant"
              /\ messages[2 * i].kind = "reply"
              /\ messages[2 * i].sql = execLog[i].sql
              /\ messages[2 * i + 1] =
                    [role |-> "user", kind |-> "feedback", sql |-> execLog[i].sql,
                     error |-> execLog[i].error]
              /\ ~execLog[i].ok

C34_Witness ==
    /\ sessions = 2 /\ hpc = "loop"
    /\ attempt = 1 /\ attempt < max_healing_attempts
    /\ Len(messages) = 3

\* positions of the system messages of a buffer
SystemMessages(buffer) == { i \in DOMAIN buffer : buffer[i].role = "system" }

\* C35: after one or more get_analysis calls on one AnalysisAgent, whether
\* they returned or raised and whether or not the buffer was seeded with
\* earlier question/answer turns, the message buffer holds exactly one system
\* message, it is the first message, and it states the dialect given to the
\* first call.
C35_OneSystemMessageFirst ==
    (call.fn = "get_analysis" /\ called) =>
        /\ SystemMessages(ret.messages) = {1}
        /\ ret.messages[1] = DialectMessage(call.calls[1].database_type)

C35_Witness ==
    /\ call.fn = "get_analysis" /\ called
    /\ Len(call.calls) = 2
    /\ call.calls[1].database_type = "mysql"
    /\ call.calls[2].database_type = "postgresql"
    /\ BaseAgentMessages(call.queries_history, call.result_history) # <<>>
    /\ Len(ret.messages) = 9

\* the rows of the vector searches of a find call that ran (step 3)
VectorRows(c) ==
    (IF c.tables_descriptions > 0 THEN { c.tables } ELSE {})
    \cup (IF c.columns_descriptions > 0 THEN { c.by_columns } ELSE {})

\* C36: in a find call whose vector searches returned, the sphere and
\* connector searches are started if and only if the vector searches found at
\* least one table, and they are given the names of the tables found by the
\* table-vector search and by the column-vector search.
C36_SecondarySearchesSeededByStep3 ==
    (called /\ call.fn = "find" /\ ~ret.raised
       /\ call.tables_descriptions + call.columns_descriptions > 0)
    => LET found == UNION { TableNames(rows) : rows \in VectorRows(call) }
       IN /\ ret.secondary <=> found # {}
          /\ ret.secondary => { ret.seed[i] : i \in DOMAIN ret.seed } = found

\* the rows of a list whose conversion returns
WellFormed(l) == { i \in DOMAIN l : ~ConversionRaises(l[i]) }

\* C37: _get_unique_tables returns whatever rows fail to convert: the output
\* holds exactly the table names of the well-formed rows of the input, each
\* once, as the first well-formed row of that name, converted; a row that was
\* dropped keeps no later well-formed row of the same name out.
C37_FailedRowIsDroppedAlone ==
    (called /\ call.fn = "_get_unique_tables") =>
        LET l == call.tables_list
        IN /\ { ret.once[i].name : i \in DOMAIN ret.once }
                 = { l[i].name : i \in WellFormed(l) }
           /\ \A i, j \in DOMAIN ret.once :
                 ret.once[i].name = ret.once[j].name => i = j
           /\ \A i \in DOMAIN ret.once :
                 \E k \in WellFormed(l) :
                    /\ ret.once[i] = StoredTableInfo(l[k])
                    /\ \A j \in WellFormed(l) : l[j].name = l[k].name => k <= j

\* a row with foreign keys None, then a well-formed row of the same name,
\* then a well-formed row of another name
C37_Witness ==
    /\ called /\ call.fn = "_get_unique_tables"
    /\ Len(call.tables_list) = 3
    /\ call.tables_list[1].name = "users"
    /\ call.tables_list[1].none_fields = {"foreign_keys"}
    /\ call.tables_list[2].name = "users" /\ call.tables_list[2].none_fields = {}
    /\ call.tables_list[3].name = "orders" /\ call.tables_list[3].none_fields = {}
    /\ Len(ret.once) = 2

\* positions of the terminal events of a load_database stream
LoadTerminals(s) ==
    { i \in DOMAIN s :
         \/ s[i].type = "error"
         \/ s[i].type = "final_result" /\ s[i].success }

\* C38: every load_database stream holds exactly one terminal event
\* (final_result with success true, or error) and it is the last event;
\* final_result is emitted only when the loader produced at least one progress
\* item and every item reported success; a URL of an unsupported scheme
\* yields an error event and the loader's load is never called.
C38_LoadStreamEndsWithOneTerminalEvent ==
    (called /\ call.fn = "load_database" /\ ~ret.raised) =>
        /\ ret.stream # <<>>
        /\ LoadTerminals(ret.stream) = { Len(ret.stream) }
        /\ \A i \in DOMAIN ret.stream :
              ret.stream[i].type \in { "reasoning_step", "error", "final_result" }
        /\ ret.stream[Len(ret.stream)].type = "final_result" =>
              /\ ret.progress # <<>>
              /\ \A i \in DOMAIN ret.progress : ret.progress[i].success
        /\ StepDetectDbType(call.url) = "invalid" =>
              /\ ret.stream[Len(ret.stream)].type = "error"
              /\ ret.load_calls = 0

\* a MySQL load that raises after two progress items: two more steps, then
\* the error event
C38_Witness ==
    /\ called /\ call.fn = "load_database" /\ ~ret.raised
    /\ call.url = << "mysql://", "h" >>
    /\ call.connect = "ok" /\ call.tables_ok /\ ~call.relationships_ok
    /\ Len(ret.stream) = 5
    /\ ret.stream[5] = LoadError("Error connecting to database")

\* C39: demo graphs cannot be deleted: whenever _graph_name resolves the
\* graph id of a delete_database call to a name that starts with the demo
\* prefix, the call raises InvalidArgumentError and graph.delete() is not
\* called.
C39_DemoGraphsCannotBeDeleted ==
    (called /\ call.fn = "delete_database" /\ call.prefix # <<>>
       /\ ~GraphNameRaises(call.graph)
       /\ StartsWith(GraphName(call.prefix, call.user, call.graph), call.prefix))
    => /\ ret.raised = "InvalidArgumentError"
       /\ ret.deleted = <<>>

\* the graph id is not the id of a demo graph
NonDemo(prefix, graph) == ~IsGeneralGraph(prefix, Strip(graph))

\* C40: graph namespacing separates users: for two different user ids and
\* two graph ids that are not demo graphs, _graph_name yields two different
\* namespaced names.
C40_NamespacingSeparatesUsers ==
    (called /\ call.fn = "_graph_name"
       /\ call.first_user # call.second_user
       /\ NonDemo(call.prefix, call.first_graph)
       /\ NonDemo(call.prefix, call.second_graph))
    => ret.first # ret.second

====
